---- MODULE Spec2Model ----
(***************************************************************************)
(* Verification model of the Weighted Distributional Statistics and       *)
(* Policy-Impact Inference Engine of FederalBudgetAnalysis.               *)
(*                                                                         *)
(* Floating-point quantities are modelled as exact rationals (a numerator *)
(* over a positive denominator) together with the IEEE special values nan *)
(* and inf that numpy produces on a division by zero.  Quantities that    *)
(* the code obtains from a square root are carried as their squares.      *)
(***************************************************************************)
EXTENDS Integers, Sequences, FiniteSets, Bags, TLC

(***************************************************************************)
(* Bounds of the model.                                                    *)
(***************************************************************************)
MaxY == 2          \* training-window values are drawn from 0..MaxY
MaxActual == 4     \* the held-out FY2025 value is drawn from 0..MaxActual

MaxObs == 3        \* a weighted sample holds 1..MaxObs observations
MaxInc == 2        \* incomes are drawn from 0..MaxInc
MaxWt == 4         \* survey weights are drawn from 1..MaxWt

MaxRows == 3       \* the bootstrap input holds 1..MaxRows person rows
MaxHH == 2         \* household keys (PH_SEQ) are drawn from 1..MaxHH
MaxBootInc == 1    \* incomes of the bootstrap input are drawn from 0..MaxBootInc
MaxBootWt == 1     \* weights of the bootstrap input are drawn from 1..MaxBootWt
NBoot == 2         \* replicates per bootstrap run (n_boot)
MaxGen == 3        \* generator family members are drawn from 0..MaxGen

MaxT == 3          \* series timestamps are drawn from 1..MaxT
MaxVal == 1        \* series values are nan or drawn from 0..MaxVal
MaxPeriods == 2    \* pre_periods, post_periods: None or 1..MaxPeriods
MaxBeta == 1       \* fitted coefficients are drawn from 0..MaxBeta
MaxNObs == 64      \* the lag rule is applied to 1..MaxNObs observations

MaxPop == 1        \* weighted persons of a quintile (millions): 0..MaxPop
MaxMeanInc == 1    \* mean post-tax income of a quintile ($): 0..MaxMeanInc
MaxCut == 1        \* a program's gap to baseline ($B) is drawn from -MaxCut..0
MaxTariffGap == 1  \* tariff revenue above baseline ($B): 0..MaxTariffGap
MaxAmt == 1        \* quintile amounts rolled up are drawn from 0..MaxAmt
MaxIncStep == 1    \* incomes around the median: MedianIncome +- MaxIncStep
MaxLoss == 1       \* per-person impacts ($) are drawn from -MaxLoss..MaxLoss
MaxTrainY == 3     \* values of the wider training windows: 0..MaxTrainY
MaxHeldOut == 15   \* wider range of the held-out FY2025 value: 0..MaxHeldOut
MaxStored == 210   \* a stored z_score is followed up to MaxStored hundredths
MaxRevenue == 60   \* tariff revenue of a scenario ($B): 0..MaxRevenue
MaxRuns == 2       \* collector runs in a behaviour
MaxDate == 2       \* observation dates are drawn from 1..MaxDate
MaxObsValue == 2   \* observation values are drawn from 1..MaxObsValue
MaxRecs == 2       \* records handled per response: 1..MaxRecs
MaxPages == 2      \* total-pages of a response is drawn from 0..MaxPages
MaxCount == 2      \* what a collector returns is drawn from 0..MaxCount
MaxErr == 2        \* the exception a collector raises is drawn from 1..MaxErr
MaxLevel == 2      \* values of the series around an event: nan or 0..MaxLevel
MaxWindow == 2     \* window_years is drawn from 1..MaxWindow

\* fiscal years a training window can hold (all before 2018, with a gap)
TrainYears == {2013, 2014, 2016, 2017}

(***************************************************************************)
(* Program constants.                                                      *)
(***************************************************************************)
HeldOutYear == 2025
BreakThreshold == 2

(***************************************************************************)
(* Arithmetic helpers.                                                     *)
(***************************************************************************)
Abs(i) == IF i < 0 THEN -i ELSE i

Sign(i) == IF i < 0 THEN -1 ELSE IF i = 0 THEN 0 ELSE 1

RECURSIVE Gcd(_, _)
Gcd(a, b) == IF b = 0 THEN Abs(a) ELSE Gcd(b, a % Abs(b))

\* floats: a rational n/d (d > 0), or one of the IEEE special values
Num(a, b) == [k |-> "num", n |-> a, d |-> b]
NaN == [k |-> "nan", n |-> 0, d |-> 0]
Inf == [k |-> "inf", n |-> 1, d |-> 0]

\* p > q for two rationals with positive denominators; the common factor of
\* the denominators is divided out before cross-multiplying
RatGT(p, q) ==
    LET g == Gcd(p.d, q.d)
    IN  p.n * (q.d \div g) > q.n * (p.d \div g)

RatEQ(p, q) ==
    LET g == Gcd(p.d, q.d)
    IN  p.n * (q.d \div g) = q.n * (p.d \div g)

\* IEEE comparison `f > 0`: False for nan, True for +inf
FloatPositive(f) ==
    CASE f.k = "nan" -> FALSE
      [] f.k = "inf" -> TRUE
      [] OTHER       -> f.n > 0

RECURSIVE SumFn(_, _)
SumFn(f, S) ==
    IF S = {} THEN 0
    ELSE LET x == CHOOSE x \in S : TRUE
         IN  f[x] + SumFn(f, S \ {x})

(***************************************************************************)
(* B. Structural-break / trend-extrapolation tester                        *)
(*    (run_25year_analysis.run_structural_break_tests).                    *)
(*                                                                         *)
(* A training window is a function from its fiscal years to the values of  *)
(* the tested column.  With n = len(X), Sx = sum x, Sy = sum y:            *)
(*    D = n*Sxx - Sx^2 = n*SS_x,    N = n*Sxy - Sx*Sy,                     *)
(*    slope = N/D,   intercept = (Sy*D - N*Sx)/(n*D).                      *)
(***************************************************************************)
TrainN(train)  == Cardinality(DOMAIN train)
TrainSx(train) == SumFn([x \in DOMAIN train |-> x], DOMAIN train)
TrainSy(train) == SumFn(train, DOMAIN train)
TrainD(train)  ==
    TrainN(train) * SumFn([x \in DOMAIN train |-> x * x], DOMAIN train)
        - TrainSx(train) * TrainSx(train)
TrainNxy(train) ==
    TrainN(train) * SumFn([x \in DOMAIN train |-> x * train[x]], DOMAIN train)
        - TrainSx(train) * TrainSy(train)

\* scipy.stats.linregress: an empty input raises ValueError; a single
\* observation has zero x variance and yields slope = intercept = nan
Linregress(train) ==
    IF TrainN(train) = 0 THEN "raise"
    ELSE IF TrainD(train) = 0 THEN "nan"
    ELSE "num"

\* numerator of slope*x + intercept - y over the denominator n*D, negated:
\* y - (slope*x + intercept) = FitResidual / (n*D)
FitResidual(train, x, y) ==
    TrainN(train) * TrainD(train) * y
        - TrainSy(train) * TrainD(train)
        - TrainNxy(train) * (TrainN(train) * x - TrainSx(train))

\* sum of squared training residuals, over the denominator (n*D)^2
\* (np.std subtracts the residual mean, which is 0 for a fit with intercept)
TrainSSE(train) ==
    LET r == [x \in DOMAIN train |-> FitResidual(train, x, train[x])]
        m == SumFn(r, DOMAIN train)
        n == TrainN(train)
    IN  SumFn([x \in DOMAIN train |-> ((n * r[x] - m) \div n) * ((n * r[x] - m) \div n)],
              DOMAIN train)

\* np.std(resid, ddof=2) squared.  With n = 2 the divisor n - ddof is 0 and
\* numpy returns nan (0/0) or inf (x/0), as the rounding of the residuals
\* decides: `ddof0` is that outcome.
SeResid2(train, ddof0) ==
    LET n  == TrainN(train)
        nD == n * TrainD(train)
    IN  IF n - 2 <= 0 THEN ddof0
        ELSE Num(TrainSSE(train), nD * nD * (n - 2))

\* 1 + 1/n + (x_new - x_bar)^2 / ss_x, as a rational over n*D
PredFactor(train, x_new) ==
    LET n == TrainN(train)
        D == TrainD(train)
        dx == n * x_new - TrainSx(train)
    IN  Num(n * D + D + dx * dx, n * D)

\* variant: the residual spread divided by the factor instead of multiplied
SePred2_Divided(se_resid2, factor) ==
    IF se_resid2.k # "num" THEN se_resid2
    ELSE Num(se_resid2.n * factor.d, se_resid2.d * factor.n)

\* se_pred squared = se_resid^2 * (1 + 1/n + (x_new - x_bar)^2 / ss_x)
SePred2(se_resid2, factor) ==
    IF se_resid2.k # "num" THEN se_resid2
    ELSE Num(se_resid2.n * factor.n, se_resid2.d * factor.d)

\* a z value: its sign and the square of its magnitude (num/den)
ZVal(sign, num, den) == [sign |-> sign, num |-> num, den |-> den]
ZZero == ZVal(0, 0, 1)

\* z = residual / se_pred if se_pred > 0 else 0
\* (se_pred is nan or 0: the else branch; se_pred is inf: residual/inf = 0)
ZScore(residual, se_pred2) ==
    IF ~FloatPositive(se_pred2) THEN ZZero
    ELSE IF se_pred2.k = "inf" THEN ZZero
    ELSE IF residual.n = 0 THEN ZZero
    ELSE LET g == Gcd(residual.d * residual.d, se_pred2.d)
         IN  ZVal(Sign(residual.n),
                  residual.n * residual.n * (se_pred2.d \div g),
                  se_pred2.n * ((residual.d * residual.d) \div g))

RECURSIVE FracGT(_, _, _, _)
\* n/d > a/c for n, a >= 0 and d, c > 0, by comparing the integer parts and
\* then the reciprocals of the fractional parts: no product is formed
FracGT(n, d, a, c) ==
    LET q1 == n \div d
        q2 == a \div c
        r1 == n % d
        r2 == a % c
    IN  IF q1 # q2 THEN q1 > q2
        ELSE IF r1 = 0 THEN FALSE
        ELSE IF r2 = 0 THEN TRUE
        ELSE FracGT(c, r2, d, r1)

\* variant: the boundary |z| = 2.0 counted as a break
IsOutlier_Inclusive(z) == z.num >= BreakThreshold * BreakThreshold * z.den

\* abs(z) > 2.0
IsOutlier(z) == z.num > BreakThreshold * BreakThreshold * z.den

Interpretation(z) == IF IsOutlier(z) THEN "STRUCTURAL BREAK" ELSE "Within trend"

\* round(z, 2), the z_score written to the results: its sign and its size in
\* hundredths, the nearest to 100 * |z| (sizes beyond MaxStored hundredths
\* are kept as MaxStored)
RoundZ(z) ==
    [sign |-> z.sign,
     hundredths |->
         Cardinality({h \in 1..MaxStored :
                         FracGT(z.num, z.den, (2 * h - 1) * (2 * h - 1), 40000)})]

NoBreak ==
    [status |-> "none", n |-> 0, residual |-> NaN, se_resid2 |-> NaN,
     se_pred2 |-> NaN, z |-> ZZero, z_score |-> RoundZ(ZZero),
     is_outlier |-> FALSE, interpretation |-> "none"]

\* one trend-extrapolation test: fit on the training window, score FY2025
BreakTest(train, actual, ddof0) ==
    LET fit == Linregress(train)
        n   == TrainN(train)
    IN  IF fit = "raise" THEN [NoBreak EXCEPT !.status = "error"]
        ELSE
          LET residual == IF fit = "nan" THEN NaN
                          ELSE Num(FitResidual(train, HeldOutYear, actual),
                                   n * TrainD(train))
              se_resid2 == IF fit = "nan" THEN NaN ELSE SeResid2(train, ddof0)
              se_pred2  == IF fit = "nan" THEN NaN
                           ELSE SePred2(se_resid2, PredFactor(train, HeldOutYear))
              z == ZScore(residual, se_pred2)
          IN  [status |-> "ok", n |-> n, residual |-> residual,
               se_resid2 |-> se_resid2, se_pred2 |-> se_pred2, z |-> z,
               z_score |-> RoundZ(z),
               is_outlier |-> IsOutlier(z),
               interpretation |-> Interpretation(z)]

(***************************************************************************)
(* A. Weighted distributional statistics.                                  *)
(*                                                                         *)
(* A sample is a sequence of observations [inc, w] with positive weights   *)
(* (every caller filters weight > 0 before computing).  Cumulative weight  *)
(* fractions are kept as integer numerators over the total weight.         *)
(***************************************************************************)
RECURSIVE SumSeq(_)
SumSeq(a) == IF a = <<>> THEN 0 ELSE Head(a) + SumSeq(Tail(a))

\* np.cumsum
Cumsum(a) == [k \in 1..Len(a) |-> SumSeq(SubSeq(a, 1, k))]

\* sum of a over the index set `mask` (a[mask].sum())
MaskedSum(a, mask) == SumSeq([k \in 1..Len(a) |-> IF k \in mask THEN a[k] ELSE 0])

Incomes(s) == [i \in 1..Len(s) |-> s[i].inc]
Weights(s) == [i \in 1..Len(s) |-> s[i].w]
Times(a, b) == [i \in 1..Len(a) |-> a[i] * b[i]]

\* position of element i in the sorted order; ties keep the input order
\* (np.argsort / sort_values on the short arrays modelled here)
Rank(a, i) ==
    1 + Cardinality({j \in 1..Len(a) : a[j] < a[i] \/ (a[j] = a[i] /\ j < i)})

\* np.argsort(a): the indices of a in ascending order of value
Argsort(a) == [k \in 1..Len(a) |-> CHOOSE i \in 1..Len(a) : Rank(a, i) = k]

\* fancy indexing a[idx]
Take(a, idx) == [k \in 1..Len(idx) |-> a[idx[k]]]

Quintiles == 1..5

\* variant: the upper edge of a bucket excluded, the lower edge included
InBucket_LowerInclusive(c, total, q) ==
    IF q = 1 THEN 5 * c < total
    ELSE 5 * c >= (q - 1) * total /\ 5 * c < q * total

\* (cum > lo) & (cum <= hi) for bucket q = (lo, hi] = ((q-1)/5, q/5], with
\* the first bucket taken as cum <= 0.20; cum = c / total
InBucket(c, total, q) ==
    IF q = 1 THEN 5 * c <= total
    ELSE 5 * c > (q - 1) * total /\ 5 * c <= q * total

\* q_inc / total_income * 100 if total_income > 0 else 0
ShareOrZero(part, total) ==
    IF total > 0 THEN Num(100 * part, total) ELSE Num(0, 1)

\* cum_wt_orig: the cumulative sorted weight at each observation's rank,
\* mapped back to the input order (numerators over total_weight)
CumWtOrig(s) ==
    LET sort_idx == Argsort(Incomes(s))
        cum_wt   == Cumsum(Take(Weights(s), sort_idx))
    IN  [i \in 1..Len(s) |-> cum_wt[Rank(Incomes(s), i)]]

\* gini = 1 - 2*sum(w_sorted*yw_cumsum)/(w_sum*yw_total) + 1/n, clamped by
\* max(0, min(1, gini)); 0 for n <= 1.  With yw_total = 0 the quotient is
\* nan and min(1, nan) keeps 1.
GiniCorrected(s) ==
    LET n        == Len(s)
        sort_idx == Argsort(Incomes(s))
        y_sorted == Take(Incomes(s), sort_idx)
        w_sorted == Take(Weights(s), sort_idx)
        w_sum    == SumSeq(w_sorted)
        yw_cumsum == Cumsum(Times(y_sorted, w_sorted))
        yw_total == yw_cumsum[n]
        area     == SumSeq(Times(w_sorted, yw_cumsum))
        P        == w_sum * yw_total
        g        == Num(n * P - 2 * n * area + P, n * P)
    IN  IF n <= 1 THEN Num(0, 1)
        ELSE IF P = 0 THEN Num(1, 1)
        ELSE IF g.n < 0 THEN Num(0, 1)
        ELSE IF g.n > g.d THEN Num(1, 1)
        ELSE g

NoDist ==
    [status |-> "none", total_weight |-> 0, total_income |-> 0,
     cum |-> <<>>, members |-> [q \in Quintiles |-> {}],
     shares |-> [q \in Quintiles |-> Num(0, 1)],
     b50_share |-> Num(0, 1), gini |-> Num(0, 1)]

\* collect_historical_distribution._compute_distribution
ComputeDistribution(s) ==
    LET weights  == Weights(s)
        incomes  == Incomes(s)
        total_weight == SumSeq(weights)
        cum_wt_orig  == CumWtOrig(s)
        total_income == SumSeq(Times(incomes, weights))
        mask(q)  == {i \in 1..Len(s) : InBucket(cum_wt_orig[i], total_weight, q)}
        b50_mask == {i \in 1..Len(s) : 2 * cum_wt_orig[i] <= total_weight}
    IN  [status |-> "ok",
         total_weight |-> total_weight,
         total_income |-> total_income,
         cum |-> cum_wt_orig,
         members |-> [q \in Quintiles |-> mask(q)],
         shares |-> [q \in Quintiles |->
                       ShareOrZero(MaskedSum(Times(incomes, weights), mask(q)),
                                   total_income)],
         b50_share |-> ShareOrZero(MaskedSum(Times(incomes, weights), b50_mask),
                                   total_income),
         gini |-> GiniCorrected(s)]

\* valid.sort_values(income_col): the rows in ascending order of income
SortValues(s) == Take(s, Argsort(Incomes(s)))

\* pd.cut(x, bins=[0, .2, .4, .6, .8, 1.0], include_lowest=True): the bucket
\* (b[q-1], b[q]] holding x = c / total, the lowest edge included; 0 (NaN)
\* for a value outside the bins
Cut(c, total) ==
    IF c < 0 \/ c > total THEN 0
    ELSE IF c = 0 THEN 1
    ELSE CHOOSE q \in Quintiles : 5 * c > (q - 1) * total /\ 5 * c <= q * total

NoQuint == [status |-> "none", total_weight |-> 0, cum |-> <<>>, quintile |-> <<>>]

\* acquire_cps_asec.compute_quintile_stats: the quintile label of each row of
\* the income-sorted frame
ComputeQuintileStats(s) ==
    LET valid == SortValues(SelectSeq(s, LAMBDA o : o.w > 0))
        cum_weight == Cumsum(Weights(valid))
        total_weight == SumSeq(Weights(valid))
    IN  [status |-> "ok", total_weight |-> total_weight, cum |-> cum_weight,
         quintile |-> [k \in 1..Len(valid) |-> Cut(cum_weight[k], total_weight)]]

NoShares ==
    [status |-> "none", total |-> 0, bottom_50_share |-> Num(0, 1),
     middle_40_share |-> Num(0, 1), top_10_share |-> Num(0, 1)]

\* acquire_cps_asec.compute_income_shares for one income type: a total <= 0
\* skips the income type (`continue`), leaving no entry in the result
ComputeIncomeShares(s) ==
    LET valid == SortValues(SelectSeq(s, LAMBDA o : o.w > 0))
        cum_weight == Cumsum(Weights(valid))
        total_weight == SumSeq(Weights(valid))
        yw    == Times(Incomes(valid), Weights(valid))
        total == SumSeq(yw)
        b50 == {k \in 1..Len(valid) : 2 * cum_weight[k] <= total_weight}
        m40 == {k \in 1..Len(valid) : 2 * cum_weight[k] > total_weight
                                        /\ 10 * cum_weight[k] <= 9 * total_weight}
        t10 == {k \in 1..Len(valid) : 10 * cum_weight[k] > 9 * total_weight}
    IN  IF total <= 0 THEN [NoShares EXCEPT !.status = "omitted", !.total = total]
        ELSE [status |-> "ok", total |-> total,
              bottom_50_share |-> Num(100 * MaskedSum(yw, b50), total),
              middle_40_share |-> Num(100 * MaskedSum(yw, m40), total),
              top_10_share |-> Num(100 * MaskedSum(yw, t10), total)]

\* the approximate Gini of the bootstrap statistics:
\* 1 - 2*sum(cum_inc/total_inc * w_s/total_w) if total_inc > 0 and
\* total_w > 0, else 0
GiniApprox(inc_s, w_s) ==
    LET cum_inc   == Cumsum(Times(inc_s, w_s))
        total_inc == SumSeq(Times(inc_s, w_s))
        total_w   == SumSeq(w_s)
        P         == total_inc * total_w
    IN  IF total_inc > 0 /\ total_w > 0
        THEN Num(P - 2 * SumSeq(Times(cum_inc, w_s)), P)
        ELSE Num(0, 1)

NoStats ==
    [status |-> "none", total_inc |-> 0, bottom_50_share |-> Num(0, 1),
     bottom_50_mean_income |-> Num(0, 1), top_10_share |-> Num(0, 1),
     gini_approx |-> Num(0, 1)]

\* run_robustness_checks.test_bootstrap_ci: the four statistics computed on
\* one (replicate) sample inc, w
ReplicateStatistics(s) ==
    LET inc  == Incomes(s)
        w    == Weights(s)
        idx  == Argsort(inc)
        inc_s == Take(inc, idx)
        w_s  == Take(w, idx)
        cum_w == Cumsum(w_s)
        total_w == cum_w[Len(s)]
        yw   == Times(inc_s, w_s)
        total_inc == SumSeq(yw)
        mask_50 == {k \in 1..Len(s) : 2 * cum_w[k] <= total_w}
        mask_90 == {k \in 1..Len(s) : 10 * cum_w[k] > 9 * total_w}
        b50_inc == MaskedSum(yw, mask_50)
        b50_w   == MaskedSum(w_s, mask_50)
    IN  [status |-> "ok", total_inc |-> total_inc,
         bottom_50_share |-> ShareOrZero(b50_inc, total_inc),
         bottom_50_mean_income |->
             IF b50_w > 0 THEN Num(b50_inc, b50_w) ELSE Num(0, 1),
         top_10_share |-> ShareOrZero(MaskedSum(yw, mask_90), total_inc),
         gini_approx |-> GiniApprox(inc_s, w_s)]

(***************************************************************************)
(* D. Cluster bootstrap (run_robustness_checks.test_bootstrap_ci).         *)
(***************************************************************************)
HHArr(rows) == [i \in 1..Len(rows) |-> rows[i].hh]

\* np.unique(hh_arr)
UniqueHHs(hh_arr) == {hh_arr[i] : i \in 1..Len(hh_arr)}

RECURSIVE RowsFrom(_, _, _)
\* the indices i >= from with hh_arr[i] = hh, ascending
RowsFrom(hh_arr, hh, from) ==
    IF from > Len(hh_arr) THEN <<>>
    ELSE IF hh_arr[from] = hh THEN <<from>> \o RowsFrom(hh_arr, hh, from + 1)
    ELSE RowsFrom(hh_arr, hh, from + 1)

\* variant: only the first row of each household is recorded
HHToRows_FirstRowOnly(hh_arr) ==
    [hh \in UniqueHHs(hh_arr) |-> <<Head(RowsFrom(hh_arr, hh, 1))>>]

\* for i, hh in enumerate(hh_arr): hh_to_rows.setdefault(hh, []).append(i)
HHToRows(hh_arr) ==
    [hh \in UniqueHHs(hh_arr) |-> RowsFrom(hh_arr, hh, 1)]

RECURSIVE KeysFrom(_, _, _)
\* the dict keys, in the order of their first row
KeysFrom(hh_arr, from, seen) ==
    IF from > Len(hh_arr) THEN <<>>
    ELSE IF hh_arr[from] \in seen THEN KeysFrom(hh_arr, from + 1, seen)
    ELSE <<hh_arr[from]>> \o KeysFrom(hh_arr, from + 1, seen \cup {hh_arr[from]})

\* hh_keys = np.array(list(hh_row_arrays.keys()))
HHKeys(hh_arr) == KeysFrom(hh_arr, 1, {})

RECURSIVE Concatenate(_)
\* np.concatenate over a sequence of index arrays
Concatenate(arrays) ==
    IF arrays = <<>> THEN <<>> ELSE Head(arrays) \o Concatenate(Tail(arrays))

\* row_idx = np.concatenate([hh_row_arrays[hh] for hh in boot_hh_idx])
RowIdx(hh_row_arrays, boot_hh_idx) ==
    Concatenate([k \in 1..Len(boot_hh_idx) |-> hh_row_arrays[boot_hh_idx[k]]])

\* variant: one key drawn per person row
NHH_PerRow(hh_arr) == Len(hh_arr)

\* n_hh = len(unique_hhs)
NHH(hh_arr) == Cardinality(UniqueHHs(hh_arr))

\* The Mersenne Twister behind np.random.RandomState is represented by a
\* full-period congruential generator over RngModulus states; `gen` selects
\* which member of the family stands for it, so that no property rests on
\* one particular stream.
RngModulus == 16

Unseeded == -1

RngNext(s) == (5 * s + 3) % RngModulus

\* variant: a generator left by an earlier call keeps running
RandomState_Shared(seed, gen, prev) ==
    IF prev = Unseeded THEN (seed + gen) % RngModulus ELSE prev

\* rng = np.random.RandomState(seed): a new generator whose state depends on
\* the seed alone, whatever generator `prev` an earlier call left behind
RandomState(seed, gen, prev) == (seed + gen) % RngModulus

RECURSIVE Choice(_, _, _)
\* rng.choice(keys, size=size, replace=True): one generator step per element;
\* the result holds the drawn keys and the generator state reached
Choice(keys, size, s) ==
    IF size = 0 THEN [out |-> <<>>, rng |-> s]
    ELSE LET s1   == RngNext(s)
             rest == Choice(keys, size - 1, s1)
         IN  [out |-> <<keys[1 + ((s1 \div 4) % Len(keys))]>> \o rest.out,
              rng |-> rest.rng]

\* variant: the input rows are sorted in place
InputAfterReplicate_SortInPlace(rows, idx) == SortValues(rows)

\* the effect of one replicate on the input arrays: inc_arr[row_idx],
\* w_arr[row_idx], inc[idx] and w[idx] are copies, so the rows are as before
InputAfterReplicate(rows, idx) == rows

\* exact rational arithmetic on floats of kind "num"
RatNorm(n, d) ==
    LET g == Gcd(n, d)
    IN  IF g = 0 THEN Num(0, 1) ELSE Num(n \div g, d \div g)

RatAdd(p, q) == RatNorm(p.n * q.d + q.n * p.d, p.d * q.d)

RatSub(p, q) == RatNorm(p.n * q.d - q.n * p.d, p.d * q.d)

RatMul(p, q) == RatNorm(p.n * q.n, p.d * q.d)

RECURSIVE RatSum(_)
RatSum(vals) ==
    IF vals = <<>> THEN Num(0, 1) ELSE RatAdd(Head(vals), RatSum(Tail(vals)))

\* position of vals[i] in ascending order
RatRank(vals, i) ==
    Cardinality({j \in 1..Len(vals) :
        RatGT(vals[i], vals[j]) \/ (RatEQ(vals[i], vals[j]) /\ j <= i)})

RatSort(vals) ==
    [k \in 1..Len(vals) |-> vals[CHOOSE i \in 1..Len(vals) : RatRank(vals, i) = k]]

\* np.percentile(vals, q40 * 2.5), linear interpolation between the order
\* statistics around the position (len(vals) - 1) * q40 / 40
Percentile(vals, q40) ==
    LET srt == RatSort(vals)
        h   == (Len(vals) - 1) * q40
        lo  == 1 + (h \div 40)
        hi  == IF lo < Len(vals) THEN lo + 1 ELSE lo
        r   == h % 40
    IN  RatAdd(RatMul(Num(40 - r, 40), srt[lo]), RatMul(Num(r, 40), srt[hi]))

\* np.mean(vals)
Mean(vals) == RatMul(RatSum(vals), Num(1, Len(vals)))

\* np.std(vals) squared: the mean squared deviation (ddof = 0)
Variance(vals) ==
    LET m == Mean(vals)
    IN  RatMul(RatSum([k \in 1..Len(vals) |->
                   RatMul(RatSub(vals[k], m), RatSub(vals[k], m))]),
               Num(1, Len(vals)))

\* one row of ci_results
CiRow(vals) ==
    [n_values |-> Len(vals), mean |-> Mean(vals), std_error2 |-> Variance(vals),
     ci_lower |-> Percentile(vals, 1), ci_upper |-> Percentile(vals, 39)]

(***************************************************************************)
(* C. Interrupted time series (src/analysis/policy_impact.py).             *)
(*                                                                         *)
(* A series is a function from its timestamps to floats.  The coefficients *)
(* of the least-squares fit are not computed: any coefficient vector is    *)
(* admitted as the outcome of sm.OLS(...).fit.                             *)
(***************************************************************************)
Max2(x, y) == IF x >= y THEN x ELSE y

Min2(x, y) == IF x <= y THEN x ELSE y

\* series.dropna()
Dropna(series) ==
    [t \in {u \in DOMAIN series : series[u].k # "nan"} |-> series[t]]

RECURSIVE SortIndex(_)
\* .sort_index(): the rows [ts, y] in ascending timestamp order
SortIndex(series) ==
    IF DOMAIN series = {} THEN <<>>
    ELSE LET t == CHOOSE u \in DOMAIN series : \A v \in DOMAIN series : u <= v
         IN  <<[ts |-> t, y |-> series[t]]>>
                 \o SortIndex([v \in DOMAIN series \ {t} |-> series[v]])

Searchsorted_Right(s, dt) == Cardinality({k \in 1..Len(s) : s[k].ts <= dt})

\* s.index.searchsorted(dt): the number of timestamps before dt
Searchsorted(s, dt) == Cardinality({k \in 1..Len(s) : s[k].ts < dt})

\* the window of the series the model is fitted on; a window length of 0
\* stands for None (both skip the `if`)
Window(series, dt, pre_periods, post_periods) ==
    LET s0 == SortIndex(Dropna(series))
        s1 == IF pre_periods # 0
              THEN SubSeq(s0, Max2(0, Searchsorted(s0, dt) - pre_periods) + 1,
                          Len(s0))
              ELSE s0
        s2 == IF post_periods # 0
              THEN SubSeq(s1, 1,
                          Min2(Len(s1), Searchsorted(s1, dt) + post_periods))
              ELSE s1
    IN  s2

\* variant: the intervention date itself counted as pre-intervention
Intervention_Strict(s, dt) ==
    [k \in 1..Len(s) |-> IF s[k].ts > dt THEN 1 ELSE 0]

\* intervention = (s.index >= intervention_dt).astype(int)
Intervention(s, dt) ==
    [k \in 1..Len(s) |-> IF s[k].ts >= dt THEN 1 ELSE 0]

\* a.argmax(): the first position of the largest element (1-based)
Argmax(a) ==
    CHOOSE i \in 1..Len(a) :
        /\ \A j \in 1..Len(a) : a[j] <= a[i]
        /\ \A j \in 1..(i - 1) : a[j] < a[i]

\* np.where(intervention, time_var - time_var[intervention.argmax()], 0)
TimeAfter(time_var, intervention) ==
    [k \in 1..Len(time_var) |->
        IF intervention[k] # 0
        THEN time_var[k] - time_var[Argmax(intervention)]
        ELSE 0]

NoX == [status |-> "none", rows |-> <<>>]

\* the regressor frame X, indexed like s; argmax of an empty array raises
Regressors(s, dt) ==
    IF Len(s) = 0 THEN [status |-> "ValueError", rows |-> <<>>]
    ELSE LET time_var == [k \in 1..Len(s) |-> k - 1]
             intervention == Intervention(s, dt)
             time_after == TimeAfter(time_var, intervention)
         IN  [status |-> "ok",
              rows |-> [k \in 1..Len(s) |->
                  [ts |-> s[k].ts, time |-> time_var[k],
                   intervention |-> intervention[k],
                   time_after |-> time_after[k]]]]

\* a column that is constant and not zero
NonzeroConst(rows, col) ==
    /\ \A j, k \in 1..Len(rows) : rows[j][col] = rows[k][col]
    /\ \E k \in 1..Len(rows) : rows[k][col] # 0

\* sm.add_constant(X) (has_constant='skip'): the column `const` is added
\* unless X already holds a non-zero constant column
HasConst(rows) ==
    ~ \E col \in {"time", "intervention", "time_after"} : NonzeroConst(rows, col)

\* the lag truncation floor(0.75 * n^(1/3)) in exact arithmetic
FloorLag(n) ==
    CHOOSE L \in 0..n :
        /\ 64 * L * L * L <= 27 * n
        /\ 64 * (L + 1) * (L + 1) * (L + 1) > 27 * n

\* variant: the lag rule evaluated exactly
MaxLags_Exact(n) == Max2(1, FloorLag(n))

\* max(1, int(0.75 * (n_obs ** (1/3)))) in double precision: the exponent is
\* the double below one third, so where 0.75 * n^(1/3) is an integer L the
\* product is a double just below L and int() truncates it to L - 1;
\* elsewhere the truncation is that of the exact value
MaxLags(n) ==
    LET L == FloorLag(n)
    IN  Max2(1, IF 64 * L * L * L = 27 * n THEN L - 1 ELSE L)

Coefs == 0..MaxBeta

\* the coefficient vectors a fit can return; no `const` entry (here 0)
\* when the column was not added
Params(rows) ==
    {p \in [const : Coefs, time : Coefs, intervention : Coefs, time_after : Coefs] :
        HasConst(rows) \/ p.const = 0}

\* model.predict(X): the linear predictor of every row, indexed like X;
\* has_const tells whether the design holds the column `const`
Predict(rows, has_const, params) ==
    [k \in 1..Len(rows) |->
        [ts |-> rows[k].ts,
         v  |-> (IF has_const THEN params.const ELSE 0)
                 + params.time * rows[k].time
                 + params.intervention * rows[k].intervention
                 + params.time_after * rows[k].time_after]]

\* variant: only the level shift is removed
XCounter_InterventionOnly(rows) ==
    [k \in 1..Len(rows) |-> [rows[k] EXCEPT !.intervention = 0]]

\* X_counter: a copy of the design with intervention = 0 and time_after = 0
XCounter(rows) ==
    [k \in 1..Len(rows) |->
        [rows[k] EXCEPT !.intervention = 0, !.time_after = 0]]

\* interrupted_time_series from the fit on: lag choice, fit, fitted values
\* and counterfactual, as returned
Fit(s, rows, params) ==
    [status |-> "ok", n_obs |-> Len(s), max_lags |-> MaxLags(Len(s)),
     params |-> params,
     intervention_effect |-> params.intervention,
     trend_change |-> params.time_after,
     actual |-> s,
     fitted |-> Predict(rows, HasConst(rows), params),
     counterfactual |-> Predict(XCounter(rows), HasConst(rows), params)]

NoIts ==
    [status |-> "none", n_obs |-> 0, max_lags |-> 0,
     params |-> [const |-> 0, time |-> 0, intervention |-> 0, time_after |-> 0],
     intervention_effect |-> 0, trend_change |-> 0,
     actual |-> <<>>, fitted |-> <<>>, counterfactual |-> <<>>]

(***************************************************************************)
(* E. Distributional attribution and welfare                               *)
(*    (run_counterfactual_analysis.py).                                    *)
(*                                                                         *)
(* Strata are the five quintiles ('Q1 (Bottom 20%)', 'Q2', ..., 'Q5 (Top   *)
(* 20%)').  Money is carried in $ millions and persons in millions, so     *)
(* that (total * 1e9) / pop of the code is total / pop here, in $.         *)
(***************************************************************************)
Strata == {"Q1", "Q2", "Q3", "Q4", "Q5"}

Programs == {"Medicaid", "Income Security", "Nondefense Discretionary"}

\* share of each program's benefits by quintile, in percent
ProgramShares ==
    [p \in Programs |->
        CASE p = "Medicaid" ->
                 [Q1 |-> 40, Q2 |-> 30, Q3 |-> 15, Q4 |-> 10, Q5 |-> 5]
          [] p = "Income Security" ->
                 [Q1 |-> 50, Q2 |-> 30, Q3 |-> 12, Q4 |-> 6, Q5 |-> 2]
          [] OTHER ->
                 [Q1 |-> 25, Q2 |-> 25, Q3 |-> 22, Q4 |-> 18, Q5 |-> 10]]

\* tariff_burden_shares, in percent
TariffBurdenShares == [Q1 |-> 10, Q2 |-> 15, Q3 |-> 22, Q4 |-> 27, Q5 |-> 26]

\* tariff_consumer_burden = tariff_gap * 1.4, as tenths
DwlTenths == 14

\* median_income = 31343
MedianIncome == 31343

\* spending_impacts[q]: sum of cut * share over the programs ($ millions)
SpendingImpact(policy_gap, q) ==
    SumFn([p \in Programs |-> policy_gap[p] * ProgramShares[p][q] * 10], Programs)

\* tariff_impacts[q] = -tariff_consumer_burden * share ($ millions)
TariffImpact(tariff_gap, q) == -(tariff_gap * DwlTenths * TariffBurdenShares[q])

NoRow == [present |-> FALSE, weighted_persons |-> 0, mean_posttax_income |-> 0]

\* quintile_pop: the strata with a row, row.get('weighted_persons', 0)
QuintilePop(table) ==
    [q \in {r \in Strata : table[r].present} |-> table[q].weighted_persons]

\* quintile_pop.get(q, default)
PopGet(table, q, default) ==
    IF q \in DOMAIN QuintilePop(table) THEN QuintilePop(table)[q] ELSE default

NoImpact ==
    [spending_cut_B |-> 0, tariff_burden_B |-> 0, total_impact_B |-> 0,
     population |-> 0, per_person |-> Num(0, 1)]

\* total_impacts[q]: per_person = (total * 1e9) / pop if pop > 0 else 0
TotalImpact(table, g, q) ==
    LET spend  == SpendingImpact(g.policy_gap, q)
        tariff == TariffImpact(g.tariff_gap, q)
        total  == spend + tariff
        pop    == PopGet(table, q, 1)
    IN  [spending_cut_B |-> spend, tariff_burden_B |-> tariff,
         total_impact_B |-> total, population |-> pop,
         per_person |-> IF pop > 0 THEN Num(total, pop) ELSE Num(0, 1)]

\* B50_Q3_FACTOR = 0.5, in halves: the weight of each quintile in a
\* bottom-50% roll-up over person-equal quintiles
B50Halves == [Q1 |-> 2, Q2 |-> 2, Q3 |-> 1, Q4 |-> 0, Q5 |-> 0]

\* sum over Q1, Q2 plus B50_Q3_FACTOR * Q3, as a rational over 2
B50Sum(f) == Num(SumFn([q \in Strata |-> B50Halves[q] * f[q]], Strata), 2)

NoB50 ==
    [b50_spend |-> Num(0, 2), b50_tariff |-> Num(0, 2), b50_pop |-> Num(0, 2),
     b50_total |-> Num(0, 2), b50_per_person |-> Num(0, 1)]

\* the bottom-50% summary of distributional_attribution
B50Summary(table, g) ==
    LET spend  == B50Sum([q \in Strata |-> SpendingImpact(g.policy_gap, q)])
        tariff == B50Sum([q \in Strata |-> TariffImpact(g.tariff_gap, q)])
        pop    == B50Sum([q \in Strata |-> PopGet(table, q, 0)])
        total  == Num(spend.n + tariff.n, 2)
    IN  [b50_spend |-> spend, b50_tariff |-> tariff, b50_pop |-> pop,
         b50_total |-> total,
         b50_per_person |-> IF pop.n > 0 THEN Num(total.n, pop.n) ELSE Num(0, 1)]

NoWelfare == [k |-> "omitted"]

\* sigma = 2.0, the coefficient of relative risk aversion
Sigma == 2

RECURSIVE Pow(_, _)
Pow(x, e) == IF e = 0 THEN 1 ELSE x * Pow(x, e - 1)

WelfareWeight_Inverted(reference_income, income, sigma) ==
    Num(Pow(income, sigma), Pow(reference_income, sigma))

\* welfare_weight = (reference_income / income) ** sigma, for income > 0
WelfareWeight(reference_income, income, sigma) ==
    Num(Pow(reference_income, sigma), Pow(income, sigma))

\* one row of welfare_results; a stratum without a row in the table or with
\* mean income <= 0 is skipped.  welfare_equivalent_loss is the product
\* per_person_loss * welfare_weight; its factors are kept, not multiplied out
WelfareRow(table, impacts, q) ==
    LET mean_income == table[q].mean_posttax_income
        loss == Num(Abs(impacts[q].per_person.n), impacts[q].per_person.d)
    IN  IF ~table[q].present \/ mean_income <= 0 THEN NoWelfare
        ELSE [k |-> "row", mean_income |-> mean_income,
              per_person_loss |-> loss,
              income_pct_loss |-> Num(100 * loss.n, loss.d * mean_income),
              welfare_weight |-> WelfareWeight(MedianIncome, mean_income, Sigma)]

\* p / q for q > 0; common factors are divided out before multiplying
RatDiv(p, q) ==
    LET g1 == Gcd(p.n, q.n)
        g2 == Gcd(p.d, q.d)
    IN  RatNorm((p.n \div g1) * (q.d \div g2), (p.d \div g2) * (q.n \div g1))

\* welfare_loss = per_person_loss * welfare_weight of a row of welfare_results
WelfareEquivalentLoss(row) ==
    IF row.k = "row" THEN RatMul(row.per_person_loss, row.welfare_weight)
    ELSE Num(0, 1)

\* the bottom-50% burden of the final summary: the per-person values of Q1
\* and Q2 are added and halved
FinalAvgPP(impacts) ==
    RatMul(RatAdd(impacts["Q1"].per_person, impacts["Q2"].per_person), Num(1, 2))

(***************************************************************************)
(* Bottom-50% roll-ups of the scripts.  A roll-up takes some quintiles in  *)
(* full and one quintile times a factor (per mille); the quintiles follow  *)
(* one of two ranking conventions, which fixes their person shares.        *)
(***************************************************************************)
\* person shares of the quintiles, in tenths of a percent
PersonShares ==
    [c \in {"person", "consumer_unit"} |->
        IF c = "person"
        THEN [Q1 |-> 200, Q2 |-> 200, Q3 |-> 200, Q4 |-> 200, Q5 |-> 200]
        ELSE [Q1 |-> 101, Q2 |-> 127, Q3 |-> 178, Q4 |-> 227, Q5 |-> 367]]

\* Q1 + Q2 + 0.5 * Q3
RuleHalfQ3 == [full |-> {"Q1", "Q2"}, partial |-> "Q3", factor |-> 500]

\* Q1 + Q2 + Q3 + 0.414 * Q4
RuleQ4 == [full |-> {"Q1", "Q2", "Q3"}, partial |-> "Q4", factor |-> 414]

\* a rule applied to quintile values f, in thousandths
Rollup(rule, f) ==
    SumFn([q \in rule.full |-> 1000 * f[q]], rule.full)
        + rule.factor * f[rule.partial]

\* one roll-up: the rule, the convention of the quintiles it is applied to,
\* the rolled amount and the share of persons it captures (1e-4 percent)
RollupAt(site, rule, convention, f) ==
    [site |-> site, rule |-> rule, convention |-> convention,
     value |-> Rollup(rule, f),
     captured |-> Rollup(rule, PersonShares[convention])]

(***************************************************************************)
(* State.                                                                *)
(***************************************************************************)
VARIABLES
    brk_pc,     \* the structural-break test that runs next
    brk_in,     \* training window and FY2025 value of the series under test
    brk_out,    \* result of the test
    sample,     \* the weighted sample (rows with weight > 0)
    dist_pc,    \* the distributional computation that runs next
    dist,       \* result of _compute_distribution
    quint,      \* result of compute_quintile_stats
    shares,     \* result of compute_income_shares
    stats,      \* the bootstrap statistics of the sample
    boot_pc,    \* position in test_bootstrap_ci
    valid,      \* the rows [hh, inc, w] of the microdata with weight > 0
    hh_row_arrays, \* household key -> indices of its rows
    hh_keys,    \* the household keys the replicates draw from
    n_hh,       \* number of keys drawn per replicate
    b,          \* replicates done
    boot_hh_idx,   \* household keys drawn by the latest replicate
    row_idx,    \* row indices of the latest replicate
    boot_results,  \* statistic name -> values collected so far
    gen,        \* the member of the generator family standing for MT19937
    rng,        \* state of the run's random generator
    draws,      \* the keys drawn by each replicate of the run, in order
    ci_results, \* statistic name -> summary row, once the run is over
    run,        \* 1 for the first call of test_bootstrap_ci, 2 for the second
    first_run,  \* draws, values and summary of the first call
    its_pc,     \* position in interrupted_time_series
    its_in,     \* its arguments: series, intervention date, window lengths
    its_s,      \* the cleaned, sorted and windowed series
    its_X,      \* the regressor rows, or the exception raised building them
    its_out,    \* the returned dictionary
    lag_pc,     \* position in the lag selection
    n_obs,      \* number of observations handed to the lag rule
    max_lags,   \* the HAC lag truncation chosen
    attr_pc,    \* position in run_counterfactual_analysis.main
    quintile_data, \* the CPS quintile table: stratum -> row, or no row
    gaps,       \* policy_gap and tariff_gap
    total_impacts, \* stratum -> attributed impact
    b50_summary,   \* the bottom-50% summary of the attribution
    welfare_results, \* stratum -> welfare row, or no row
    final_summary, \* the bottom-50% burden of the final summary
    b50_pc,     \* the bottom-50% roll-up that runs next
    amounts,    \* the quintile amounts rolled up
    rollups,    \* the roll-ups done so far
    welf_pc,    \* position in welfare_analysis called on its own
    welf_in,    \* its arguments: total_impacts and quintile_data
    welf_out,   \* the rows of the returned frame
    pct_pc,     \* position in percent_change_around_event
    pct_in,     \* its arguments: series, event date, window
    pct_out,    \* the returned dictionary
    alloc_pc,   \* the scenario of run_scotus_tariff_scenario that runs next
    revenue,    \* tariff revenue of the legislative scenario ($B)
    relief_by_quintile, \* refund scenario: burden removed, by quintile
    quintile_burden,    \* legislative scenario: consumer burden by quintile
    col_pc,     \* position in the collector run
    observations,    \* the committed rows of the observations table (a bag)
    economic_series, \* the committed series_id values of economic_series
    collection_log,  \* the committed rows of collection_log, oldest first
    txn,        \* the tables as the session sees them, pending changes included
    col_run,    \* the local variables of the collector run
    before,     \* the observations table when the run started
    runs,       \* collector runs finished
    last_run,   \* what the last finished run returned and did
    pipe_pc,    \* the collector run_pipeline.collect_all attempts next
    pipe_in,    \* what each collector will do when called
    results     \* the dictionary collect_all builds

brkVars == <<brk_pc, brk_in, brk_out>>

distVars == <<sample, dist_pc, dist, quint, shares, stats>>

bootVars ==
    <<boot_pc, valid, hh_row_arrays, hh_keys, n_hh, b, boot_hh_idx, row_idx,
      boot_results, gen, rng, draws, ci_results, run, first_run>>

itsVars == <<its_pc, its_in, its_s, its_X, its_out>>

lagVars == <<lag_pc, n_obs, max_lags>>

attrVars ==
    <<attr_pc, quintile_data, gaps, total_impacts, b50_summary, welfare_results,
      final_summary>>

b50Vars == <<b50_pc, amounts, rollups>>

\* the components of the descriptive statistics and of the policy analysis
statVars == <<brkVars, distVars, bootVars>>

polVars == <<itsVars, lagVars, attrVars, b50Vars>>

\* the welfare scenario, the event comparison, the collectors, the pipeline
welfVars == <<welf_pc, welf_in, welf_out>>

pctVars == <<pct_pc, pct_in, pct_out>>

allocVars == <<alloc_pc, revenue, relief_by_quintile, quintile_burden>>

colVars ==
    <<col_pc, observations, economic_series, collection_log, txn, col_run,
      before, runs, last_run>>

pipeVars == <<pipe_pc, pipe_in, results>>

extVars == <<welfVars, pctVars, allocVars, colVars, pipeVars>>

vars == <<statVars, polVars, extVars>>

(***************************************************************************)
(* Structural-break tests: one series, scored by one of the four tests.    *)
(***************************************************************************)

\* the training windows a series can supply: any subset of the years
TrainWindows ==
    UNION {[S -> 0..MaxY] : S \in SUBSET TrainYears}

\* the series each test scores
BreakMetrics ==
    {"customs_share", "interest_ratio", "regressive_share", "safety_net_share"}

NoInput == [train |-> <<>>, actual |-> 0]

BreakIdle ==
    /\ brk_pc = "idle"
    /\ brk_in = NoInput
    /\ brk_out = NoBreak

\* one of the four tests of run_structural_break_tests; an exception raised
\* by the fit leaves the function
RunTest(metric) ==
    /\ brk_pc = metric
    /\ \E ddof0 \in {NaN, Inf} :
          LET r == BreakTest(brk_in.train, brk_in.actual, ddof0)
          IN  /\ brk_out' = r
              /\ brk_pc' = IF r.status = "error" THEN "failed" ELSE "summary"
    /\ UNCHANGED <<brk_in, distVars, bootVars, polVars, extVars>>

TestCustomsShare == RunTest("customs_share")

TestInterestRatio == RunTest("interest_ratio")

TestRegressiveShare == RunTest("regressive_share")

TestSafetyNetShare == RunTest("safety_net_share")

\* the summary loop and the JSON dump at the end of the function
SaveBreakResults ==
    /\ brk_pc = "summary"
    /\ brk_pc' = "done"
    /\ UNCHANGED <<brk_in, brk_out, distVars, bootVars, polVars, extVars>>

BreakNext ==
    \/ TestCustomsShare
    \/ TestInterestRatio
    \/ TestRegressiveShare
    \/ TestSafetyNetShare
    \/ SaveBreakResults

(***************************************************************************)
(* Distributional statistics: one sample, run through each computation.    *)
(***************************************************************************)
Observations == [inc : 0..MaxInc, w : 1..MaxWt]

Samples == UNION {[1..n -> Observations] : n \in 1..MaxObs}

DistIdle ==
    /\ sample = <<>>
    /\ dist_pc = "idle"
    /\ dist = NoDist
    /\ quint = NoQuint
    /\ shares = NoShares
    /\ stats = NoStats

Distribution ==
    /\ dist_pc = "distribution"
    /\ dist' = ComputeDistribution(sample)
    /\ dist_pc' = "quintile_stats"
    /\ UNCHANGED <<sample, quint, shares, stats, brkVars, bootVars, polVars, extVars>>

QuintileStats ==
    /\ dist_pc = "quintile_stats"
    /\ quint' = ComputeQuintileStats(sample)
    /\ dist_pc' = "income_shares"
    /\ UNCHANGED <<sample, dist, shares, stats, brkVars, bootVars, polVars, extVars>>

IncomeShares ==
    /\ dist_pc = "income_shares"
    /\ shares' = ComputeIncomeShares(sample)
    /\ dist_pc' = "statistics"
    /\ UNCHANGED <<sample, dist, quint, stats, brkVars, bootVars, polVars, extVars>>

Statistics ==
    /\ dist_pc = "statistics"
    /\ stats' = ReplicateStatistics(sample)
    /\ dist_pc' = "done"
    /\ UNCHANGED <<sample, dist, quint, shares, brkVars, bootVars, polVars, extVars>>

DistNext ==
    \/ Distribution
    \/ QuintileStats
    \/ IncomeShares
    \/ Statistics

(***************************************************************************)
(* Cluster bootstrap: one run of test_bootstrap_ci.                        *)
(***************************************************************************)
StatsNames == {"bottom_50_share", "bottom_50_mean_income", "top_10_share", "gini_approx"}

BootSeed == 42

PersonRows == [hh : 1..MaxHH, inc : 0..MaxBootInc, w : 1..MaxBootWt]

Microdata == UNION {[1..n -> PersonRows] : n \in 1..MaxRows}

NoCi == [st \in StatsNames |-> [n_values |-> 0]]

NoRun == [draws |-> <<>>, boot_results |-> <<>>, ci_results |-> <<>>]

\* nothing indexed, drawn or collected yet
BootReset ==
    /\ hh_row_arrays = <<>>
    /\ hh_keys = <<>>
    /\ n_hh = 0
    /\ b = 0
    /\ boot_hh_idx = <<>>
    /\ row_idx = <<>>
    /\ boot_results = [st \in StatsNames |-> <<>>]
    /\ draws = <<>>
    /\ ci_results = NoCi

BootIdle ==
    /\ boot_pc = "idle"
    /\ valid = <<>>
    /\ gen = 0
    /\ rng = Unseeded
    /\ run = 1
    /\ first_run = NoRun
    /\ BootReset

\* seed the generator, enumerate the households and map each to its row
\* indices
BuildIndex ==
    /\ boot_pc = "index"
    /\ rng' = RandomState(BootSeed, gen, rng)
    /\ n_hh' = NHH(HHArr(valid))
    /\ hh_row_arrays' = HHToRows(HHArr(valid))
    /\ hh_keys' = HHKeys(HHArr(valid))
    /\ boot_pc' = "replicate"
    /\ UNCHANGED <<valid, b, boot_hh_idx, row_idx, boot_results, gen, draws,
                   ci_results, run, first_run, brkVars, distVars, polVars, extVars>>

\* one replicate: rng.choice(hh_keys, size=n_hh, replace=True), gather the
\* rows of the drawn households, compute and collect the four statistics
Replicate ==
    /\ boot_pc = "replicate"
    /\ b < NBoot
    /\ LET c     == Choice(hh_keys, n_hh, rng)
           drawn == c.out
           idx   == RowIdx(hh_row_arrays, drawn)
           r     == ReplicateStatistics(Take(valid, idx))
       IN  /\ rng' = c.rng
           /\ boot_hh_idx' = drawn
           /\ draws' = Append(draws, drawn)
           /\ row_idx' = idx
           /\ boot_results' =
                 [st \in StatsNames |-> Append(boot_results[st], r[st])]
           /\ valid' = InputAfterReplicate(valid, idx)
    /\ b' = b + 1
    /\ UNCHANGED <<boot_pc, hh_row_arrays, hh_keys, n_hh, gen, ci_results, run, first_run,
                   brkVars, distVars, polVars, extVars>>

\* the loop is over: mean, standard error and percentile interval of the
\* values collected for each statistic
Summarize ==
    /\ boot_pc = "replicate"
    /\ b = NBoot
    /\ ci_results' = [st \in StatsNames |-> CiRow(boot_results[st])]
    /\ boot_pc' = "done"
    /\ UNCHANGED <<valid, hh_row_arrays, hh_keys, n_hh, b, boot_hh_idx, row_idx,
                   boot_results, gen, rng, draws, run, first_run,
                   brkVars, distVars, polVars, extVars>>

\* the same input is bootstrapped a second time; what the first call
\* produced is kept for comparison, its generator object is left behind
Rerun ==
    /\ boot_pc = "done"
    /\ run = 1
    /\ first_run' = [draws |-> draws, boot_results |-> boot_results,
                     ci_results |-> ci_results]
    /\ run' = 2
    /\ boot_pc' = "index"
    /\ hh_row_arrays' = <<>>
    /\ hh_keys' = <<>>
    /\ n_hh' = 0
    /\ b' = 0
    /\ boot_hh_idx' = <<>>
    /\ row_idx' = <<>>
    /\ boot_results' = [st \in StatsNames |-> <<>>]
    /\ draws' = <<>>
    /\ ci_results' = NoCi
    /\ UNCHANGED <<valid, gen, rng, brkVars, distVars, polVars, extVars>>

BootNext ==
    \/ BuildIndex
    \/ Replicate
    \/ Summarize
    \/ Rerun

(***************************************************************************)
(* Interrupted time series: one call of interrupted_time_series.           *)
(***************************************************************************)
SeriesValues == {NaN} \cup {Num(v, 1) : v \in 0..MaxVal}

SeriesInputs == UNION {[S -> SeriesValues] : S \in SUBSET (1..MaxT)}

NoItsInput ==
    [series |-> <<>>, intervention_dt |-> 0, pre_periods |-> 0, post_periods |-> 0]

ItsIdle ==
    /\ its_pc = "idle"
    /\ its_in = NoItsInput
    /\ its_s = <<>>
    /\ its_X = NoX
    /\ its_out = NoIts

\* clean, sort and cut the series to the requested window
SelectWindow ==
    /\ its_pc = "window"
    /\ its_s' = Window(its_in.series, its_in.intervention_dt,
                       its_in.pre_periods, its_in.post_periods)
    /\ its_pc' = "regressors"
    /\ UNCHANGED <<its_in, its_X, its_out, statVars, lagVars, attrVars, b50Vars, extVars>>

\* build time, intervention and time_after; an exception leaves the function
BuildRegressors ==
    /\ its_pc = "regressors"
    /\ LET X == Regressors(its_s, its_in.intervention_dt)
       IN  /\ its_X' = X
           /\ its_pc' = IF X.status = "ok" THEN "fit" ELSE "failed"
           /\ its_out' = IF X.status = "ok" THEN its_out
                         ELSE [its_out EXCEPT !.status = X.status]
    /\ UNCHANGED <<its_in, its_s, statVars, lagVars, attrVars, b50Vars, extVars>>

\* fit with HAC errors, predict the counterfactual, return
FitAndPredict ==
    /\ its_pc = "fit"
    /\ \E params \in Params(its_X.rows) :
          its_out' = Fit(its_s, its_X.rows, params)
    /\ its_pc' = "done"
    /\ UNCHANGED <<its_in, its_s, its_X, statVars, lagVars, attrVars, b50Vars, extVars>>

ItsNext ==
    \/ SelectWindow
    \/ BuildRegressors
    \/ FitAndPredict

(***************************************************************************)
(* Lag selection: the Newey-West rule applied to a number of observations. *)
(***************************************************************************)
LagIdle ==
    /\ lag_pc = "idle"
    /\ n_obs = 0
    /\ max_lags = 0

LagSelection ==
    /\ lag_pc = "select"
    /\ max_lags' = MaxLags(n_obs)
    /\ lag_pc' = "done"
    /\ UNCHANGED <<n_obs, statVars, itsVars, attrVars, b50Vars, extVars>>

LagNext == LagSelection

(***************************************************************************)
(* Attribution, welfare and final summary of run_counterfactual_analysis.  *)
(***************************************************************************)
QuintileRows ==
    {NoRow} \cup [present : {TRUE}, weighted_persons : 0..MaxPop,
                  mean_posttax_income : 0..MaxMeanInc]

NoGaps == [policy_gap |-> [p \in Programs |-> 0], tariff_gap |-> 0]

AttrReset ==
    /\ total_impacts = [q \in Strata |-> NoImpact]
    /\ b50_summary = NoB50
    /\ welfare_results = [q \in Strata |-> NoWelfare]
    /\ final_summary = Num(0, 1)

AttrIdle ==
    /\ attr_pc = "idle"
    /\ quintile_data = [q \in Strata |-> NoRow]
    /\ gaps = NoGaps
    /\ AttrReset

\* distributional_attribution: impacts by quintile and bottom-50% summary
Attribute ==
    /\ attr_pc = "attribution"
    /\ total_impacts' = [q \in Strata |-> TotalImpact(quintile_data, gaps, q)]
    /\ b50_summary' = B50Summary(quintile_data, gaps)
    /\ attr_pc' = "welfare"
    /\ UNCHANGED <<quintile_data, gaps, welfare_results, final_summary,
                   statVars, itsVars, lagVars, b50Vars, extVars>>

\* welfare_analysis
Welfare ==
    /\ attr_pc = "welfare"
    /\ welfare_results' =
          [q \in Strata |-> WelfareRow(quintile_data, total_impacts, q)]
    /\ attr_pc' = "summary"
    /\ UNCHANGED <<quintile_data, gaps, total_impacts, b50_summary, final_summary,
                   statVars, itsVars, lagVars, b50Vars, extVars>>

\* the bottom-50% line of the final summary of main
FinalSummary ==
    /\ attr_pc = "summary"
    /\ final_summary' = FinalAvgPP(total_impacts)
    /\ attr_pc' = "done"
    /\ UNCHANGED <<quintile_data, gaps, total_impacts, b50_summary,
                   welfare_results, statVars, itsVars, lagVars, b50Vars, extVars>>

AttrNext ==
    \/ Attribute
    \/ Welfare
    \/ FinalSummary

(***************************************************************************)
(* The bottom-50% roll-ups, script by script, over one set of amounts.     *)
(***************************************************************************)
B50Idle ==
    /\ b50_pc = "idle"
    /\ amounts = [q \in Strata |-> 0]
    /\ rollups = {}

\* the roll-up `site` applies `rule` to quintiles ranked by `convention`
RollupStep(pc, next, site, rule, convention) ==
    /\ b50_pc = pc
    /\ rollups' = rollups \cup {RollupAt(site, rule, convention, amounts)}
    /\ b50_pc' = next
    /\ UNCHANGED <<amounts, statVars, itsVars, lagVars, attrVars, extVars>>

\* run_counterfactual_analysis: CPS person quintiles, Q1 + Q2 + 0.5 * Q3
RollupCounterfactual ==
    RollupStep("counterfactual", "robustness", "run_counterfactual_analysis",
               RuleHalfQ3, "person")

\* run_robustness_checks: CPS person quintiles, Q1 + Q2 + 0.5 * Q3
RollupRobustness ==
    RollupStep("robustness", "scotus_spending", "run_robustness_checks",
               RuleHalfQ3, "person")

\* run_scotus_tariff_scenario, spending cuts: CPS person quintiles
RollupScotusSpending ==
    RollupStep("scotus_spending", "scotus_tariff",
               "run_scotus_tariff_scenario.b50_spending_cuts",
               RuleHalfQ3, "person")

\* run_scotus_tariff_scenario, B50_CPS_TARIFF_SHARE: the CEX consumer-unit
\* quintile shares rolled up as Q1 + Q2 + 0.5 * Q3
RollupScotusTariff ==
    RollupStep("scotus_tariff", "incidence",
               "run_scotus_tariff_scenario.B50_CPS_TARIFF_SHARE",
               RuleHalfQ3, "consumer_unit")

\* run_tariff_incidence_analysis: CEX consumer-unit quintiles,
\* Q1 + Q2 + Q3 + 0.414 * Q4
RollupIncidence ==
    RollupStep("incidence", "done", "run_tariff_incidence_analysis",
               RuleQ4, "consumer_unit")

B50Next ==
    \/ RollupCounterfactual
    \/ RollupRobustness
    \/ RollupScotusSpending
    \/ RollupScotusTariff
    \/ RollupIncidence

(***************************************************************************)
(* welfare_analysis called on its own, with incomes around the median.     *)
(***************************************************************************)
\* mean post-tax incomes: none, or within MaxIncStep dollars of the median
IncomeGrid == {0} \cup {MedianIncome + k : k \in -MaxIncStep..MaxIncStep}

\* the strata that have a row in the quintile table handed in
WelfareStrata == {"Q1", "Q3", "Q5"}

WelfareTables ==
    {t \in [Strata -> {NoRow} \cup [present : {TRUE}, weighted_persons : {1},
                                     mean_posttax_income : IncomeGrid]] :
        \A q \in Strata : t[q].present <=> q \in WelfareStrata}

WelfareImpacts ==
    {[q \in Strata |-> [NoImpact EXCEPT !.per_person = Num(f[q], 1)]] :
        f \in {g \in [Strata -> -MaxLoss..MaxLoss] :
                  \A q \in Strata \ WelfareStrata : g[q] = 0}}

NoWelfareInput == [quintile_data |-> [q \in Strata |-> NoRow],
                   total_impacts |-> [q \in Strata |-> NoImpact]]

WelfIdle ==
    /\ welf_pc = "idle"
    /\ welf_in = NoWelfareInput
    /\ welf_out = [q \in Strata |-> NoWelfare]

\* welfare_analysis: one row per stratum with positive mean income, with its
\* welfare weight and welfare-equivalent loss
WelfareAnalysis ==
    /\ welf_pc = "welfare"
    /\ welf_out' =
          [q \in Strata |->
              LET row == WelfareRow(welf_in.quintile_data, welf_in.total_impacts, q)
              IN  IF row.k = "row"
                  THEN [k |-> "row", mean_income |-> row.mean_income,
                        per_person_loss |-> row.per_person_loss,
                        income_pct_loss |-> row.income_pct_loss,
                        welfare_weight |-> row.welfare_weight,
                        welfare_equivalent_loss |-> WelfareEquivalentLoss(row)]
                  ELSE NoWelfare]
    /\ welf_pc' = "done"
    /\ UNCHANGED <<welf_in, statVars, polVars, pctVars, allocVars, colVars, pipeVars>>

WelfNext == WelfareAnalysis

(***************************************************************************)
(* percent_change_around_event: means before and after a policy event.     *)
(***************************************************************************)
NegInf == [k |-> "inf", n |-> -1, d |-> 0]

\* series.loc[lo:hi]: label slicing keeps both end points
LocSlice(series, lo, hi) ==
    [t \in {u \in DOMAIN series : lo <= u /\ u <= hi} |-> series[t]]

RECURSIVE ValuesOf(_)
\* the values of the rows of a sorted series, in order
ValuesOf(s) == IF s = <<>> THEN <<>> ELSE <<s[1].y>> \o ValuesOf(Tail(s))

\* Series.mean(): nan values are skipped; nan when nothing is left
SeriesMean(series) ==
    LET vals == ValuesOf(SortIndex(Dropna(series)))
    IN  IF vals = <<>> THEN NaN ELSE Mean(vals)

\* ((post_mean - pre_mean) / abs(pre_mean)) * 100 on numpy floats: a division
\* by zero gives an infinity or nan, nan propagates
PctChange(pre_mean, post_mean) ==
    IF pre_mean.k = "nan" \/ post_mean.k = "nan" THEN NaN
    ELSE LET diff == RatSub(post_mean, pre_mean)
         IN  IF pre_mean.n = 0
             THEN (IF diff.n = 0 THEN NaN ELSE IF diff.n > 0 THEN Inf ELSE NegInf)
             ELSE RatMul(RatDiv(diff, Num(Abs(pre_mean.n), pre_mean.d)),
                         Num(100, 1))

NoPct == [k |-> "none"]

\* the dictionary percent_change_around_event returns
PercentChangeAroundEvent(series, event_dt, window_years) ==
    LET pre  == LocSlice(series, event_dt - window_years, event_dt)
        post == LocSlice(series, event_dt, event_dt + window_years)
    IN  IF DOMAIN pre = {} \/ DOMAIN post = {}
        THEN [k |-> "error"]
        ELSE [k |-> "ok",
              pre_mean |-> SeriesMean(pre),
              post_mean |-> SeriesMean(post),
              pct_change |-> PctChange(SeriesMean(pre), SeriesMean(post)),
              pre_n |-> Cardinality(DOMAIN pre),
              post_n |-> Cardinality(DOMAIN post)]

LevelValues == {NaN} \cup {Num(v, 1) : v \in 0..MaxLevel}

LevelSeries == UNION {[S -> LevelValues] : S \in SUBSET (1..MaxT)}

NoPctInput == [series |-> <<>>, event_dt |-> 0, window_years |-> 0]

PctIdle ==
    /\ pct_pc = "idle"
    /\ pct_in = NoPctInput
    /\ pct_out = NoPct

PercentChange ==
    /\ pct_pc = "call"
    /\ pct_out' = PercentChangeAroundEvent(pct_in.series, pct_in.event_dt,
                                           pct_in.window_years)
    /\ pct_pc' = "done"
    /\ UNCHANGED <<pct_in, statVars, polVars, welfVars, allocVars, colVars, pipeVars>>

PctNext == PercentChange

(***************************************************************************)
(* run_scotus_tariff_scenario: tariff burdens allocated to the quintiles.  *)
(***************************************************************************)
\* CEX_TARIFF_SHARES, in units of 0.00001
CEX_TARIFF_SHARES ==
    [Q1 |-> 10398, Q2 |-> 13948, Q3 |-> 17805, Q4 |-> 23124, Q5 |-> 34726]

\* ABOVE_BASELINE_CUSTOMS = 100 ($B)
ABOVE_BASELINE_CUSTOMS == 100

\* burden * DWL_FACTOR * CEX_TARIFF_SHARES[q], in units of $0.000001 B
\* (DWL_FACTOR = 1.4 as tenths)
CexAllocation(burden) ==
    [q \in Strata |-> burden * DwlTenths * CEX_TARIFF_SHARES[q]]

NoAllocation == [q \in Strata |-> 0]

AllocIdle ==
    /\ alloc_pc = "idle"
    /\ revenue = 0
    /\ relief_by_quintile = NoAllocation
    /\ quintile_burden = NoAllocation

\* model_refund_scenario: the executive-tariff burden removed, by quintile
RefundScenario ==
    /\ alloc_pc = "refund"
    /\ relief_by_quintile' = CexAllocation(ABOVE_BASELINE_CUSTOMS)
    /\ alloc_pc' = "legislative"
    /\ UNCHANGED <<revenue, quintile_burden, statVars, polVars, welfVars,
                   pctVars, colVars, pipeVars>>

\* model_legislative_tariff, one scenario: the consumer burden by quintile
LegislativeTariff ==
    /\ alloc_pc = "legislative"
    /\ quintile_burden' = CexAllocation(revenue)
    /\ alloc_pc' = "done"
    /\ UNCHANGED <<revenue, relief_by_quintile, statVars, polVars, welfVars,
                   pctVars, colVars, pipeVars>>

AllocNext ==
    \/ RefundScenario
    \/ LegislativeTariff

(***************************************************************************)
(* The collectors: FRED collect_series, Treasury collect_debt_to_penny and *)
(* collect_mts_summary, writing through one database session.              *)
(***************************************************************************)
RunKinds == {"fred", "debt", "mts"}

\* the series a run collects (one configured FRED series)
SeriesId(kind) ==
    CASE kind = "fred" -> "FYFSGDA188S"
      [] kind = "debt" -> "TREASURY_DEBT_TOTAL"
      [] OTHER         -> "TREASURY_MTS_SUMMARY"

Source(kind) == IF kind = "fred" THEN "FRED" ELSE "Treasury"

\* a record_date strptime rejects, an amount float() rejects
BadDate == 0
BadValue == 0

\* the records a response can hold: FRED frames are parsed and cleaned as a
\* whole before the loop, Treasury records are parsed one by one
Records(kind) ==
    IF kind = "fred" THEN [date : 1..MaxDate, value : 1..MaxObsValue]
    ELSE [date : 1..MaxDate \cup {BadDate},
          value : 1..MaxObsValue \cup {BadValue}]

SameKey_ValueToo(row, probe) ==
    /\ row.series_id = probe.series_id
    /\ row.date = probe.date
    /\ row.value = probe.value

\* (series_id, date): the columns of filter_by in the collectors and of the
\* unique constraint uq_series_date
SameKey(row, probe) ==
    /\ row.series_id = probe.series_id
    /\ row.date = probe.date

\* query(Observation).filter_by(series_id=..., date=...): the session
\* autoflushes, so pending rows are seen
Find(table, probe) == {r \in BagToSet(table) : SameKey(r, probe)}

\* INSERT under uq_series_date
Insert(table, row) ==
    IF \E r \in BagToSet(table) : SameKey(r, row)
    THEN [status |-> "IntegrityError", table |-> table]
    ELSE [status |-> "ok", table |-> table (+) SetToBag({row})]

\* existing_obs.value = value, or db_session.add(Observation(...))
Upsert(table, row) ==
    IF Find(table, row) # {}
    THEN LET existing_obs == CHOOSE r \in Find(table, row) : TRUE
         IN  [status |-> "ok",
              table |-> (table (-) SetToBag({existing_obs})) (+) SetToBag({row})]
    ELSE Insert(table, row)

Rollback_Keep(session, committed) == session

\* db_session.rollback(): the session forgets its pending changes
Rollback(session, committed) == committed

NextPage_Stay(page) == page

\* page += 1
NextPage(page) == page + 1

Committed == [obs |-> observations, series |-> economic_series]

NoCollectorRun ==
    [kind |-> "none", records_saved |-> 0, status |-> "success", page |-> 0,
     records |-> "none", total_pages |-> 0,
     requested |-> <<>>, on_page |-> 0, writes |-> 0, commits |-> 0]

NoLast ==
    [kind |-> "none", status |-> "none", returned |-> 0, committed |-> 0,
     commits |-> 0, requested |-> <<>>, logged |-> 0]

ColIdle ==
    /\ col_pc = "idle"
    /\ observations = EmptyBag
    /\ economic_series = {}
    /\ collection_log = <<>>
    /\ txn = [obs |-> EmptyBag, series |-> {}]
    /\ col_run = NoCollectorRun
    /\ before = EmptyBag
    /\ runs = 0
    /\ last_run = NoLast

\* the metadata row of a Treasury run: added when the series has none
BeginTreasury(kind) ==
    /\ col_pc = "ready"
    /\ runs < MaxRuns
    /\ col_run' = [NoCollectorRun EXCEPT !.kind = kind, !.page = 1]
    /\ before' = observations
    /\ txn' = [txn EXCEPT !.series = @ \cup {SeriesId(kind)}]
    /\ col_pc' = "request"
    /\ UNCHANGED <<observations, economic_series, collection_log, runs,
                   last_run, statVars, polVars, welfVars, pctVars, allocVars,
                   pipeVars>>

\* collect_series up to the metadata: get_series_info raises, returns nothing
\* or returns the metadata that is stored
BeginFred ==
    /\ col_pc = "ready"
    /\ runs < MaxRuns
    /\ before' = observations
    /\ \E info \in {"raise", "none", "info"} :
          IF info = "raise"
          THEN /\ col_run' = [NoCollectorRun EXCEPT !.kind = "fred", !.status = "error"]
               /\ txn' = Rollback(txn, Committed)
               /\ col_pc' = "log"
          ELSE /\ col_run' = [NoCollectorRun EXCEPT !.kind = "fred"]
               /\ txn' = IF info = "info"
                         THEN [txn EXCEPT !.series = @ \cup {SeriesId("fred")}]
                         ELSE txn
               /\ col_pc' = "request"
    /\ UNCHANGED <<observations, economic_series, collection_log, runs,
                   last_run, statVars, polVars, welfVars, pctVars, allocVars,
                   pipeVars>>

BeginDebt == BeginTreasury("debt")

BeginMts == BeginTreasury("mts")

\* one request: it raises, returns no records or returns some
Request(kind) ==
    /\ col_pc = "request"
    /\ col_run.kind = kind
    /\ Len(col_run.requested) <= MaxPages
    /\ \E response \in {"raise", "empty", "records"} :
          LET asked == [col_run EXCEPT !.requested = Append(@, col_run.page),
                                       !.records = response,
                                       !.on_page = 0]
          IN  IF response = "raise"
              THEN /\ col_run' = [asked EXCEPT !.status = "error"]
                   /\ txn' = Rollback(txn, Committed)
                   /\ col_pc' = "log"
              ELSE /\ col_run' = asked
                   /\ txn' = txn
                   /\ col_pc' = IF response = "empty" THEN "commit" ELSE "rows"
    /\ UNCHANGED <<observations, economic_series, collection_log, before,
                   runs, last_run, statVars, polVars, welfVars, pctVars,
                   allocVars, pipeVars>>

\* get_observations of collect_series
RequestObservations == Request("fred")

\* one turn of the pagination loop of collect_debt_to_penny
RequestPage == Request("debt")

\* the request of collect_mts_summary
RequestSummary == Request("mts")

\* the body of the loop over the records: a bad date raises, a bad amount is
\* skipped, any other record is written and counted
StoreRecord ==
    /\ col_pc = "rows"
    /\ col_run.on_page < MaxRecs
    /\ \E rec \in Records(col_run.kind) :
          LET row == [series_id |-> SeriesId(col_run.kind), date |-> rec.date,
                      value |-> rec.value]
              seen == [col_run EXCEPT !.on_page = @ + 1]
          IN  IF rec.date = BadDate \/ (rec.value # BadValue
                                         /\ Upsert(txn.obs, row).status # "ok")
              THEN /\ col_run' = [seen EXCEPT !.status = "error"]
                   /\ txn' = Rollback(txn, Committed)
                   /\ col_pc' = "log"
              ELSE IF rec.value = BadValue
              THEN /\ col_run' = seen
                   /\ txn' = txn
                   /\ col_pc' = "rows"
              ELSE /\ col_run' = [seen EXCEPT !.records_saved = @ + 1,
                                              !.writes = @ + 1]
                   /\ txn' = [txn EXCEPT !.obs = Upsert(txn.obs, row).table]
                   /\ col_pc' = "rows"
    /\ UNCHANGED <<observations, economic_series, collection_log, before,
                   runs, last_run, statVars, polVars, welfVars, pctVars,
                   allocVars, pipeVars>>

\* the loop over the records of collect_series or collect_mts_summary ends
EndRecords ==
    /\ col_pc = "rows"
    /\ col_run.kind \in {"fred", "mts"}
    /\ col_run.on_page >= 1
    /\ col_pc' = "commit"
    /\ UNCHANGED <<observations, economic_series, collection_log, txn, col_run,
                   before, runs, last_run, statVars, polVars, welfVars,
                   pctVars, allocVars, pipeVars>>

\* the end of a page of collect_debt_to_penny: total-pages of the response
\* (1 when missing) decides whether another page is requested
CheckMorePages ==
    /\ col_pc = "rows"
    /\ col_run.kind = "debt"
    /\ col_run.on_page >= 1
    /\ \E total_pages \in 0..MaxPages :
          IF col_run.page >= total_pages
          THEN /\ col_pc' = "commit"
               /\ col_run' = [col_run EXCEPT !.total_pages = total_pages]
          ELSE /\ col_pc' = "request"
               /\ col_run' = [col_run EXCEPT !.total_pages = total_pages,
                                              !.page = NextPage(@)]
    /\ UNCHANGED <<observations, economic_series, collection_log, txn, before,
                   runs, last_run, statVars, polVars, welfVars, pctVars,
                   allocVars, pipeVars>>

\* db_session.commit() at the end of the try block: it succeeds or raises
CommitRun ==
    /\ col_pc = "commit"
    /\ \E ok \in BOOLEAN :
          IF ok
          THEN /\ observations' = txn.obs
               /\ economic_series' = txn.series
               /\ txn' = txn
               /\ col_run' = [col_run EXCEPT !.commits = @ + 1]
               /\ col_pc' = "log"
          ELSE /\ col_run' = [col_run EXCEPT !.status = "error"]
               /\ txn' = Rollback(txn, Committed)
               /\ col_pc' = "log"
               /\ UNCHANGED <<observations, economic_series>>
    /\ UNCHANGED <<collection_log, before, runs, last_run, statVars, polVars,
                   welfVars, pctVars, allocVars, pipeVars>>

\* the CollectionLog row, its commit, and the return
LogRun ==
    /\ col_pc = "log"
    /\ collection_log' =
          Append(collection_log,
                 [source |-> Source(col_run.kind),
                  series_id |-> SeriesId(col_run.kind),
                  records_fetched |-> col_run.records_saved,
                  status |-> col_run.status])
    /\ observations' = txn.obs
    /\ economic_series' = txn.series
    /\ last_run' =
          [kind |-> col_run.kind, status |-> col_run.status,
           returned |-> col_run.records_saved,
           committed |-> IF col_run.commits > 0 THEN col_run.writes ELSE 0,
           commits |-> col_run.commits, requested |-> col_run.requested,
           logged |-> Len(collection_log)]
    /\ runs' = runs + 1
    /\ col_run' = NoCollectorRun
    /\ col_pc' = "ready"
    /\ UNCHANGED <<txn, before, statVars, polVars, welfVars, pctVars,
                   allocVars, pipeVars>>

ColNext ==
    \/ BeginFred
    \/ BeginDebt
    \/ BeginMts
    \/ RequestObservations
    \/ RequestPage
    \/ RequestSummary
    \/ StoreRecord
    \/ EndRecords
    \/ CheckMorePages
    \/ CommitRun
    \/ LogRun

(***************************************************************************)
(* run_pipeline.collect_all: the three collectors, each in its own try.    *)
(***************************************************************************)
Collectors == {"fred", "treasury", "cbo"}

\* what a collector does when called: it returns its results (summarised by
\* a count) or raises an Exception with some message
Outcomes ==
    [k : {"return"}, v : 0..MaxCount] \cup [k : {"raise"}, v : 1..MaxErr]

\* the entry stored under the collector's key: its results, or
\* {"error": str(e)} from the except clause
Entry(outcome) ==
    IF outcome.k = "raise" THEN [error |-> outcome.v]
    ELSE [collected |-> outcome.v]

AfterAttempt_Propagate(outcome, next) ==
    IF outcome.k = "raise" THEN "aborted" ELSE next

\* where collect_all continues after a collector returned or raised: the
\* except clause swallows the exception
AfterAttempt(outcome, next) == next

NoResults == [c \in {} |-> 0]

PipeIdle ==
    /\ pipe_pc = "idle"
    /\ pipe_in = [c \in Collectors |-> [k |-> "return", v |-> 0]]
    /\ results = NoResults

\* one try/except block of collect_all
Attempt(key, next) ==
    /\ pipe_pc = key
    /\ results' = [c \in DOMAIN results \cup {key} |->
                      IF c = key THEN Entry(pipe_in[key]) ELSE results[c]]
    /\ pipe_pc' = AfterAttempt(pipe_in[key], next)
    /\ UNCHANGED <<pipe_in, statVars, polVars, welfVars, pctVars, allocVars,
                   colVars>>

CollectFred == Attempt("fred", "treasury")

CollectTreasury == Attempt("treasury", "cbo")

CollectCbo == Attempt("cbo", "done")

PipeNext ==
    \/ CollectFred
    \/ CollectTreasury
    \/ CollectCbo

(***************************************************************************)
(* Specifications, one per component.                                      *)
(***************************************************************************)
\* the series under test: its masked training window (X, y) and its FY2025
\* value, as read from the derived annual table
InitBreak ==
    /\ brk_pc \in BreakMetrics
    /\ brk_in \in [train : TrainWindows, actual : 0..MaxActual]
    /\ brk_out = NoBreak
    /\ DistIdle
    /\ BootIdle
    /\ ItsIdle
    /\ LagIdle
    /\ AttrIdle
    /\ B50Idle
    /\ WelfIdle
    /\ PctIdle
    /\ AllocIdle
    /\ ColIdle
    /\ PipeIdle

SpecBreak == InitBreak /\ [][BreakNext]_vars

\* the same tests on three-point training windows with a wider range of
\* values and of the held-out value
InitBreakWide ==
    /\ brk_pc \in BreakMetrics
    /\ brk_in \in [train : [{2013, 2014, 2016} -> 0..MaxTrainY],
                    actual : 0..MaxHeldOut]
    /\ brk_out = NoBreak
    /\ DistIdle
    /\ BootIdle
    /\ ItsIdle
    /\ LagIdle
    /\ AttrIdle
    /\ B50Idle
    /\ WelfIdle
    /\ PctIdle
    /\ AllocIdle
    /\ ColIdle
    /\ PipeIdle

SpecBreakWide == InitBreakWide /\ [][BreakNext]_vars

\* the sample under study
InitDist ==
    /\ sample \in Samples
    /\ dist_pc = "distribution"
    /\ dist = NoDist
    /\ quint = NoQuint
    /\ shares = NoShares
    /\ stats = NoStats
    /\ BreakIdle
    /\ BootIdle
    /\ ItsIdle
    /\ LagIdle
    /\ AttrIdle
    /\ B50Idle
    /\ WelfIdle
    /\ PctIdle
    /\ AllocIdle
    /\ ColIdle
    /\ PipeIdle

SpecDist == InitDist /\ [][DistNext]_vars

\* the microdata as loaded, before the household index is built
InitBoot ==
    /\ boot_pc = "index"
    /\ valid \in Microdata
    /\ gen \in 0..MaxGen
    /\ rng = Unseeded
    /\ run = 1
    /\ first_run = NoCollectorRun
    /\ BootReset
    /\ BreakIdle
    /\ DistIdle
    /\ ItsIdle
    /\ LagIdle
    /\ AttrIdle
    /\ B50Idle
    /\ WelfIdle
    /\ PctIdle
    /\ AllocIdle
    /\ ColIdle
    /\ PipeIdle

SpecBoot == InitBoot /\ [][BootNext]_vars

\* the arguments of one call of interrupted_time_series
InitIts ==
    /\ its_pc = "window"
    /\ its_in \in [series : SeriesInputs, intervention_dt : 1..(MaxT + 1),
                    pre_periods : 0..MaxPeriods, post_periods : 0..MaxPeriods]
    /\ its_s = <<>>
    /\ its_X = NoX
    /\ its_out = NoIts
    /\ BreakIdle
    /\ DistIdle
    /\ BootIdle
    /\ LagIdle
    /\ AttrIdle
    /\ B50Idle
    /\ WelfIdle
    /\ PctIdle
    /\ AllocIdle
    /\ ColIdle
    /\ PipeIdle

SpecIts == InitIts /\ [][ItsNext]_vars

\* the number of observations of a window
InitLag ==
    /\ lag_pc = "select"
    /\ n_obs \in 1..MaxNObs
    /\ max_lags = 0
    /\ BreakIdle
    /\ DistIdle
    /\ BootIdle
    /\ ItsIdle
    /\ AttrIdle
    /\ B50Idle
    /\ WelfIdle
    /\ PctIdle
    /\ AllocIdle
    /\ ColIdle
    /\ PipeIdle

SpecLag == InitLag /\ [][LagNext]_vars

\* the quintile table and the gaps to the CBO baseline
InitAttr ==
    /\ attr_pc = "attribution"
    /\ quintile_data \in [Strata -> QuintileRows]
    /\ gaps \in [policy_gap : [Programs -> (-MaxCut)..0],
                  tariff_gap : 0..MaxTariffGap]
    /\ AttrReset
    /\ BreakIdle
    /\ DistIdle
    /\ BootIdle
    /\ ItsIdle
    /\ LagIdle
    /\ B50Idle
    /\ WelfIdle
    /\ PctIdle
    /\ AllocIdle
    /\ ColIdle
    /\ PipeIdle

SpecAttr == InitAttr /\ [][AttrNext]_vars

\* the quintile amounts the scripts roll up
InitB50 ==
    /\ b50_pc = "counterfactual"
    /\ amounts \in [Strata -> 0..MaxAmt]
    /\ rollups = {}
    /\ BreakIdle
    /\ DistIdle
    /\ BootIdle
    /\ ItsIdle
    /\ LagIdle
    /\ AttrIdle
    /\ WelfIdle
    /\ PctIdle
    /\ AllocIdle
    /\ ColIdle
    /\ PipeIdle

SpecB50 == InitB50 /\ [][B50Next]_vars

\* the arguments of welfare_analysis
InitWelf ==
    /\ welf_pc = "welfare"
    /\ welf_in \in [quintile_data : WelfareTables, total_impacts : WelfareImpacts]
    /\ welf_out = [q \in Strata |-> NoWelfare]
    /\ BreakIdle
    /\ DistIdle
    /\ BootIdle
    /\ ItsIdle
    /\ LagIdle
    /\ AttrIdle
    /\ B50Idle
    /\ PctIdle
    /\ AllocIdle
    /\ ColIdle
    /\ PipeIdle

SpecWelf == InitWelf /\ [][WelfNext]_vars

\* the arguments of percent_change_around_event
InitPct ==
    /\ pct_pc = "call"
    /\ pct_in \in [series : LevelSeries, event_dt : 1..MaxT,
                    window_years : 1..MaxWindow]
    /\ pct_out = NoPct
    /\ BreakIdle
    /\ DistIdle
    /\ BootIdle
    /\ ItsIdle
    /\ LagIdle
    /\ AttrIdle
    /\ B50Idle
    /\ WelfIdle
    /\ AllocIdle
    /\ ColIdle
    /\ PipeIdle

SpecPct == InitPct /\ [][PctNext]_vars

\* the revenue of the legislative scenario
InitAlloc ==
    /\ alloc_pc = "refund"
    /\ revenue \in 0..MaxRevenue
    /\ relief_by_quintile = NoAllocation
    /\ quintile_burden = NoAllocation
    /\ BreakIdle
    /\ DistIdle
    /\ BootIdle
    /\ ItsIdle
    /\ LagIdle
    /\ AttrIdle
    /\ B50Idle
    /\ WelfIdle
    /\ PctIdle
    /\ ColIdle
    /\ PipeIdle

SpecAlloc == InitAlloc /\ [][AllocNext]_vars

\* what each collector will do
InitPipe ==
    /\ pipe_pc = "fred"
    /\ pipe_in \in [Collectors -> Outcomes]
    /\ results = NoResults
    /\ BreakIdle
    /\ DistIdle
    /\ BootIdle
    /\ ItsIdle
    /\ LagIdle
    /\ AttrIdle
    /\ B50Idle
    /\ WelfIdle
    /\ PctIdle
    /\ AllocIdle
    /\ ColIdle

SpecPipe == InitPipe /\ [][PipeNext]_vars

\* the collectors start on an empty database
InitCol ==
    /\ col_pc = "ready"
    /\ observations = EmptyBag
    /\ economic_series = {}
    /\ collection_log = <<>>
    /\ txn = [obs |-> EmptyBag, series |-> {}]
    /\ col_run = NoCollectorRun
    /\ before = EmptyBag
    /\ runs = 0
    /\ last_run = NoLast
    /\ BreakIdle
    /\ DistIdle
    /\ BootIdle
    /\ ItsIdle
    /\ LagIdle
    /\ AttrIdle
    /\ B50Idle
    /\ WelfIdle
    /\ PctIdle
    /\ AllocIdle
    /\ PipeIdle

SpecCol == InitCol /\ [][ColNext]_vars

\* every request returns or times out, and the run goes on to its next step
SpecColFair == SpecCol /\ WF_vars(ColNext)

(***************************************************************************)
(* Properties of the structural-break tester.                              *)
(***************************************************************************)

\* C1: a test whose training window has fewer than 3 observations, or whose
\* x values are all identical (sum of squared x deviations = 0), fails with
\* an error instead of producing a result, and a reported z = 0 only ever
\* means that the held-out residual is 0.
C1_NoSilentZero ==
    brk_out.status = "ok" =>
        /\ TrainN(brk_in.train) >= 3
        /\ TrainD(brk_in.train) # 0
        /\ (brk_out.z = ZZero =>
                brk_out.residual.k = "num" /\ brk_out.residual.n = 0)

C3_StrictSymmetricThreshold ==
    brk_out.status = "ok" =>
        /\ brk_out.is_outlier = (brk_out.z.num > 4 * brk_out.z.den)
        /\ brk_out.is_outlier = (brk_out.interpretation = "STRUCTURAL BREAK")
        /\ ~brk_out.is_outlier = (brk_out.interpretation = "Within trend")

\* a held-out point exactly 2 prediction standard errors below the trend,
\* classified 'Within trend'
C3_Witness ==
    /\ brk_out.status = "ok"
    /\ brk_out.z.sign = -1
    /\ brk_out.z.num = 4 * brk_out.z.den
    /\ brk_out.interpretation = "Within trend"

(***************************************************************************)
(* Properties of the weighted distributional statistics.                   *)
(***************************************************************************)
InUnitInterval(g) == g.n >= 0 /\ g.n <= g.d

\* C4: for non-negative values and positive weights the weighted Gini, with
\* or without the finite-sample correction, lies in [0, 1].
C4_GiniBounded ==
    /\ dist.status = "ok" => InUnitInterval(dist.gini)
    /\ stats.status = "ok" => InUnitInterval(stats.gini_approx)

AllEqualPositive(s) ==
    \A i \in 1..Len(s) : s[i].inc = s[1].inc /\ s[i].inc > 0

\* C5: when every observation has the same positive value and all weights
\* are positive, the weighted Gini returned is exactly 0.
C5_EqualValuesGiniZero ==
    AllEqualPositive(sample) =>
        /\ dist.status = "ok" => dist.gini.n = 0
        /\ stats.status = "ok" => stats.gini_approx.n = 0

\* C6: the five quintile income shares of any weighted sample sum to 100%.
C6_QuintileSharesSumTo100 ==
    dist.status = "ok" =>
        LET d == dist.shares[1].d
        IN  /\ \A q \in Quintiles : dist.shares[q].d = d
            /\ SumSeq([q \in Quintiles |-> dist.shares[q].n]) = 100 * d

\* bucket q holds the cumulative weight fraction c/total: (q-1)/5 < c/total
\* <= q/5, the upper edge inclusive
FractionInQuintile(c, total, q) ==
    (q - 1) * total < 5 * c /\ 5 * c <= q * total

Perms(n) == {p \in [1..n -> 1..n] : \A i, j \in 1..n : p[i] = p[j] => i = j}

\* C8: quintile shares, bottom-50% share and Gini depend only on the
\* multiset of (value, weight) pairs: every permutation of the observations
\* yields the same results.
C8_OrderInvariant ==
    dist_pc = "done" =>
        \A p \in Perms(Len(sample)) :
            LET t == Take(sample, p)
                d == ComputeDistribution(t)
                r == ReplicateStatistics(t)
            IN  /\ \A q \in Quintiles : RatEQ(d.shares[q], dist.shares[q])
                /\ RatEQ(d.b50_share, dist.b50_share)
                /\ RatEQ(d.gini, dist.gini)
                /\ RatEQ(r.bottom_50_share, stats.bottom_50_share)
                /\ RatEQ(r.gini_approx, stats.gini_approx)

\* C9: an income share over a sample whose total weighted value is <= 0
\* fails with an error; no share value is returned or recorded for it.
C9_DegenerateTotalFails ==
    /\ (dist.status # "none" /\ dist.total_income <= 0) => dist.status = "error"
    /\ (shares.status # "none" /\ shares.total <= 0) => shares.status = "error"
    /\ (stats.status # "none" /\ stats.total_inc <= 0) => stats.status = "error"

(***************************************************************************)
(* Properties of the cluster bootstrap.                                    *)
(***************************************************************************)
Count(a, P(_)) == Cardinality({k \in 1..Len(a) : P(a[k])})

\* C10: in every replicate and for every household key, the number of that
\* household's rows in the replicate equals (times the key was drawn) x
\* (rows the household has in the input): clusters are included whole.
C10_WholeClusters ==
    b >= 1 =>
        \A hh \in 1..MaxHH :
            Count(row_idx, LAMBDA i : valid[i].hh = hh)
                = Count(boot_hh_idx, LAMBDA key : key = hh)
                    * Count(valid, LAMBDA row : row.hh = hh)

\* a replicate that drew a household of at least two persons at least twice
C10_Witness ==
    /\ b >= 1
    /\ \E hh \in 1..MaxHH :
          /\ Count(valid, LAMBDA row : row.hh = hh) >= 2
          /\ Count(boot_hh_idx, LAMBDA key : key = hh) >= 2
          /\ Count(row_idx, LAMBDA i : valid[i].hh = hh) >= 4

(***************************************************************************)
(* Cluster bootstrap: determinism, counts and read-only inputs.            *)
(***************************************************************************)
\* C11: a second bootstrap run with the same seed on the same input draws
\* the same keys in every replicate as the first run did, collects the same
\* replicate statistics and ends with the same summary rows (mean, standard
\* error, confidence bounds).
C11_SameSeedSameDraws ==
    run = 2 =>
        /\ Len(draws) <= Len(first_run.draws)
        /\ \A k \in 1..Len(draws) :
              /\ draws[k] = first_run.draws[k]
              /\ \A st \in StatsNames :
                    boot_results[st][k] = first_run.boot_results[st][k]
        /\ boot_pc = "done" =>
              /\ draws = first_run.draws
              /\ boot_results = first_run.boot_results
              /\ ci_results = first_run.ci_results

\* a second run is over and its replicates did not all draw the same keys
C11_Witness ==
    /\ run = 2
    /\ boot_pc = "done"
    /\ Len(draws) = NBoot
    /\ \E j, k \in 1..Len(draws) : draws[j] # draws[k]

\* C12: the household keys are enumerated before the first replicate and
\* stay the distinct keys of the input; every replicate draws exactly as
\* many keys as there are households, all from that key set; and when the
\* confidence intervals are computed each statistic holds exactly NBoot
\* values.
C12_FixedKeySetAndCount ==
    LET clusters == UniqueHHs(HHArr(valid))
    IN  /\ boot_pc \in {"replicate", "done"} =>
              /\ {hh_keys[k] : k \in 1..Len(hh_keys)} = clusters
              /\ Len(hh_keys) = Cardinality(clusters)
        /\ \A k \in 1..Len(draws) :
              /\ Len(draws[k]) = Cardinality(clusters)
              /\ \A j \in 1..Len(draws[k]) : draws[k][j] \in clusters
        /\ Len(draws) = b
        /\ \A st \in StatsNames : Len(boot_results[st]) = b
        /\ boot_pc = "done" =>
              /\ b = NBoot
              /\ \A st \in StatsNames : ci_results[st].n_values = NBoot

\* a finished run over an input with several households, one of them with
\* more than one row
C12_Witness ==
    /\ boot_pc = "done"
    /\ Cardinality(UniqueHHs(HHArr(valid))) >= 2
    /\ Cardinality(UniqueHHs(HHArr(valid))) < Len(valid)
    /\ Len(draws) = NBoot

\* C13: once built, the household -> rows mapping is not modified while the
\* replicates run, and no step changes the input rows (values, weights,
\* household keys), so they are after the last replicate what they were
\* before the first.
C13_InputsAndMapReadOnly ==
    [][/\ valid' = valid
       /\ boot_pc = "replicate" => hh_row_arrays' = hh_row_arrays]_vars

\* all replicates are done on an input whose rows are not in income order
C13_Witness ==
    /\ boot_pc = "replicate"
    /\ b = NBoot
    /\ valid # SortValues(valid)
    /\ DOMAIN hh_row_arrays = UniqueHHs(HHArr(valid))

(***************************************************************************)
(* Interrupted time series.                                                *)
(***************************************************************************)
\* positions of the window at or after the intervention date
PostRows == {k \in 1..Len(its_s) : its_s[k].ts >= its_in.intervention_dt}

PreRows == {k \in 1..Len(its_s) : its_s[k].ts < its_in.intervention_dt}

\* C14: over a window of n observations time[t] = t for t = 0..n-1;
\* intervention[t] is 1 exactly when the timestamp of row t is at or after
\* the intervention date, else 0; time_after[t] is time[t] minus the time of
\* the first post-intervention row on post-intervention rows and 0 on the
\* others, and is never negative.
C14_RegressorConstruction ==
    its_X.status = "ok" =>
        /\ Len(its_X.rows) = Len(its_s)
        /\ \A k \in 1..Len(its_s) :
              LET x == its_X.rows[k]
              IN  /\ x.ts = its_s[k].ts
                  /\ x.time = k - 1
                  /\ x.intervention = IF k \in PostRows THEN 1 ELSE 0
                  /\ x.time_after >= 0
                  /\ k \in PreRows => x.time_after = 0
                  /\ k \in PostRows =>
                        \A f \in PostRows :
                            (\A j \in PostRows : f <= j) => x.time_after = k - f

\* a window with a pre-intervention row, a row dated exactly at the
\* intervention, and a later row
C14_Witness ==
    /\ its_X.status = "ok"
    /\ PreRows # {}
    /\ \E k \in PostRows : its_s[k].ts = its_in.intervention_dt
    /\ \E k \in PostRows : its_X.rows[k].time_after >= 1

\* C15: a call whose window holds no pre-intervention or no
\* post-intervention observation ends with InsufficientDataError, not with
\* a fitted model.
C15_ShortWindowFails ==
    (its_pc \in {"done", "failed"} /\ (PreRows = {} \/ PostRows = {}))
        => its_out.status = "InsufficientDataError"

\* C16 as stated: the lag truncation is the exact value of
\* max(1, floor(0.75 * n^(1/3))): the largest L >= 1 with 64*L^3 <= 27*n,
\* or 1 when there is none.
C16_ExactLag ==
    lag_pc = "done" =>
        /\ max_lags >= 1
        /\ 64 * max_lags * max_lags * max_lags <= 27 * n_obs \/ max_lags = 1
        /\ 64 * (max_lags + 1) * (max_lags + 1) * (max_lags + 1) > 27 * n_obs

\* C16 amended: the lag truncation is the largest L >= 1 with
\* 64*L^3 < 27*n (strictly), or 1 when there is none: where 0.75 * n^(1/3)
\* is an integer, as at n = 64, the lag is one less than that integer.
C16_FloatLag ==
    lag_pc = "done" =>
        /\ max_lags >= 1
        /\ 64 * max_lags * max_lags * max_lags < 27 * n_obs \/ max_lags = 1
        /\ 64 * (max_lags + 1) * (max_lags + 1) * (max_lags + 1) >= 27 * n_obs

\* the lag chosen for 64 observations
C16_Witness ==
    /\ lag_pc = "done"
    /\ n_obs = 64
    /\ max_lags = 2

\* C17: the counterfactual is the model's prediction with intervention and
\* time_after set to 0 on every row: it equals the fitted value at every
\* pre-intervention timestamp and lies below it by
\* beta_intervention + beta_time_after * time_after at every
\* post-intervention timestamp; fitted, counterfactual and actual carry the
\* same timestamps in the same order.
C17_CounterfactualRemovesPolicyTerms ==
    its_pc = "done" =>
        LET o == its_out
            n == Len(its_s)
        IN  /\ Len(o.actual) = n /\ Len(o.fitted) = n /\ Len(o.counterfactual) = n
            /\ \A k \in 1..n :
                  /\ o.fitted[k].ts = o.actual[k].ts
                  /\ o.counterfactual[k].ts = o.actual[k].ts
                  /\ k < n => o.actual[k].ts < o.actual[k + 1].ts
                  /\ k \in PreRows => o.counterfactual[k].v = o.fitted[k].v
                  /\ k \in PostRows =>
                        o.fitted[k].v - o.counterfactual[k].v =
                            o.params.intervention
                                + o.params.time_after * its_X.rows[k].time_after

\* a fitted window with rows on both sides of the intervention, a level
\* shift and a trend change
C17_Witness ==
    /\ its_pc = "done"
    /\ PreRows # {}
    /\ \E k \in PostRows : its_X.rows[k].time_after >= 1
    /\ its_out.params.intervention # 0
    /\ its_out.params.time_after # 0

(***************************************************************************)
(* Attribution, welfare and bottom-50% roll-ups.                           *)
(***************************************************************************)
\* C18: a stratum whose population is missing or not positive gets an error
\* outcome for its per-person impact, and a stratum whose income is missing
\* or not positive gets an error outcome for its welfare row; neither gets
\* a numeric default or is left out, and the other strata have results.
C18_DegenerateStratumIsError ==
    attr_pc = "done" =>
        \A q \in Strata :
            LET row == quintile_data[q]
            IN  /\ IF row.present /\ row.weighted_persons > 0
                   THEN total_impacts[q].per_person.k = "num"
                   ELSE total_impacts[q].per_person.k = "error"
                /\ IF row.present /\ row.mean_posttax_income > 0
                   THEN welfare_results[q].k = "row"
                   ELSE welfare_results[q].k = "error"

\* twice (Q1 + Q2 + 0.5 * Q3)
HalfQ3Sum(f) == 2 * f["Q1"] + 2 * f["Q2"] + f["Q3"]

\* C19: every bottom-50% roll-up of run_counterfactual_analysis (spending
\* cuts, tariff burden, population, and the per-person loss of the
\* attribution summary and of the final summary) is Q1 + Q2 + 0.5 * Q3,
\* with nothing from Q4 and Q5, the per-person losses being the rolled-up
\* total over the rolled-up population.
C19_OneBottom50Rule ==
    attr_pc = "done" =>
        LET spend  == HalfQ3Sum([q \in Strata |-> total_impacts[q].spending_cut_B])
            tariff == HalfQ3Sum([q \in Strata |-> total_impacts[q].tariff_burden_B])
            pop    == HalfQ3Sum([q \in Strata |->
                          IF quintile_data[q].present
                          THEN quintile_data[q].weighted_persons ELSE 0])
        IN  /\ RatEQ(b50_summary.b50_spend, Num(spend, 2))
            /\ RatEQ(b50_summary.b50_tariff, Num(tariff, 2))
            /\ RatEQ(b50_summary.b50_pop, Num(pop, 2))
            /\ pop > 0 =>
                  /\ RatEQ(b50_summary.b50_per_person, Num(spend + tariff, pop))
                  /\ RatEQ(final_summary, Num(spend + tariff, pop))

\* C20: every bottom-50% roll-up applies the factor of the ranking
\* convention of its quintiles (0.5 on Q3 for person-equal quintiles, 0.414
\* on Q4 for consumer-unit quintiles), so that the persons captured are 50%
\* of all persons within 0.1 percentage points.
C20_FactorMatchesConvention ==
    \A r \in rollups :
        /\ r.rule = IF r.convention = "person" THEN RuleHalfQ3 ELSE RuleQ4
        /\ Abs(r.captured - 500000) <= 1000

\* the strata with a row in the frame welfare_analysis returns
WelfareRowsOf(out) == {q \in Strata : out[q].k = "row"}

\* C21: with sigma = 2 the welfare weight of a stratum is above 1 when its
\* income is below the reference income, exactly 1 at the reference and
\* below 1 above it; so for two strata with positive losses, the one with the
\* lower income first, the ratio of their welfare-weighted losses strictly
\* exceeds the ratio of their per-person losses
C21_WeightOrdersByIncome ==
    welf_pc = "done" =>
        /\ \A q \in WelfareRowsOf(welf_out) :
              LET r == welf_out[q]
              IN  /\ r.mean_income < MedianIncome => RatGT(r.welfare_weight, Num(1, 1))
                  /\ r.mean_income = MedianIncome => RatEQ(r.welfare_weight, Num(1, 1))
                  /\ r.mean_income > MedianIncome => RatGT(Num(1, 1), r.welfare_weight)
        /\ \A a, c \in WelfareRowsOf(welf_out) :
              LET ra == welf_out[a]
                  rc == welf_out[c]
              IN  (/\ ra.mean_income < rc.mean_income
                   /\ ra.per_person_loss.n > 0
                   /\ rc.per_person_loss.n > 0)
                  => RatGT(RatDiv(ra.welfare_equivalent_loss,
                                  rc.welfare_equivalent_loss),
                           RatDiv(ra.per_person_loss, rc.per_person_loss))

C21_Witness ==
    /\ welf_pc = "done"
    /\ WelfareRowsOf(welf_out) = WelfareStrata
    /\ welf_out["Q1"].mean_income < MedianIncome
    /\ welf_out["Q3"].mean_income = MedianIncome
    /\ welf_out["Q5"].mean_income > MedianIncome
    /\ \A q \in WelfareStrata : welf_out[q].per_person_loss.n > 0

\* the observations of the window strictly before the event, and those at or
\* after it
StrictlyBefore(inp) ==
    [t \in {u \in DOMAIN inp.series :
               inp.event_dt - inp.window_years <= u /\ u < inp.event_dt}
        |-> inp.series[t]]

AtOrAfter(inp) ==
    [t \in {u \in DOMAIN inp.series :
               inp.event_dt <= u /\ u <= inp.event_dt + inp.window_years}
        |-> inp.series[t]]

\* the series is a before the event and c from the event on, a # 0
IsStep(inp, a, c) ==
    /\ DOMAIN StrictlyBefore(inp) # {}
    /\ DOMAIN AtOrAfter(inp) # {}
    /\ \A t \in DOMAIN StrictlyBefore(inp) : inp.series[t] = Num(a, 1)
    /\ \A t \in DOMAIN AtOrAfter(inp) : inp.series[t] = Num(c, 1)

\* C22: percent_change_around_event compares the mean of the in-window
\* observations strictly before the event with the mean of those at or after
\* it, so a series that is a before the event and c from the event on gives
\* pct_change = (c - a) / |a| * 100
C22_StepSeriesPctChange ==
    pct_pc = "done" =>
        \A a \in 1..MaxLevel, c \in 0..MaxLevel :
            IsStep(pct_in, a, c) =>
                /\ pct_out.k = "ok"
                /\ RatEQ(pct_out.pre_mean, Num(a, 1))
                /\ RatEQ(pct_out.post_mean, Num(c, 1))
                /\ RatEQ(pct_out.pct_change, Num((c - a) * 100, a))

\* C26: in the structural-break results written to JSON, is_outlier is true
\* (and the interpretation is 'STRUCTURAL BREAK') exactly when the stored
\* z_score, rounded to 2 decimals, is above 2.0 in absolute value
C26_OutlierMatchesStoredZ ==
    (brk_pc = "done" /\ brk_out.status = "ok") =>
        /\ brk_out.is_outlier <=> brk_out.z_score.hundredths > 200
        /\ brk_out.interpretation = "STRUCTURAL BREAK"
              <=> brk_out.z_score.hundredths > 200

\* the quintile impacts of distributional_attribution add up to the three
\* program gaps minus 1.4 times the tariff gap ($ millions)
AttributionAddsUp ==
    attr_pc \in {"welfare", "summary", "done"} =>
        SumFn([q \in Strata |-> total_impacts[q].total_impact_B], Strata)
            = SumFn([p \in Programs |-> gaps.policy_gap[p] * 1000], Programs)
                - gaps.tariff_gap * DwlTenths * 100

\* C27: the five per-quintile amounts of an allocation add up to the amount
\* allocated, every allocation-share vector summing to exactly 1: here the
\* tariff burdens allocated with CEX_TARIFF_SHARES
C27_QuintileAmountsSumToAggregate ==
    /\ alloc_pc \in {"legislative", "done"} =>
          SumFn(relief_by_quintile, Strata)
              = ABOVE_BASELINE_CUSTOMS * DwlTenths * 100000
    /\ alloc_pc = "done" =>
          SumFn(quintile_burden, Strata) = revenue * DwlTenths * 100000

\* the timestamps of the cleaned series before the intervention date, and
\* those at or after it
AvailablePre == {t \in DOMAIN Dropna(its_in.series) : t < its_in.intervention_dt}

AvailablePost == {t \in DOMAIN Dropna(its_in.series) : t >= its_in.intervention_dt}

\* C28: with pre_periods = p and post_periods = q, both positive, the window
\* holds exactly min(p, available) pre-intervention observations and exactly
\* min(q, available) post-intervention observations, those closest in time to
\* the intervention date
C28_WindowKeepsClosest ==
    (its_pc # "window" /\ its_in.pre_periods > 0 /\ its_in.post_periods > 0) =>
        LET pre  == {its_s[k].ts : k \in PreRows}
            post == {its_s[k].ts : k \in PostRows}
        IN  /\ Cardinality(PreRows) =
                  Min2(its_in.pre_periods, Cardinality(AvailablePre))
            /\ Cardinality(PostRows) =
                  Min2(its_in.post_periods, Cardinality(AvailablePost))
            /\ pre \subseteq AvailablePre
            /\ post \subseteq AvailablePost
            /\ Cardinality(pre) = Cardinality(PreRows)
            /\ Cardinality(post) = Cardinality(PostRows)
            /\ \A t \in pre : \A u \in AvailablePre \ pre : u < t
            /\ \A t \in post : \A u \in AvailablePost \ post : t < u
            /\ \A k \in 1..Len(its_s) : its_s[k].y = its_in.series[its_s[k].ts]

\* a window that had to drop the earliest pre-intervention observation and
\* keeps an observation dated exactly at the intervention
C28_Witness ==
    /\ its_pc # "window"
    /\ its_in.pre_periods = 1
    /\ its_in.post_periods = 1
    /\ Cardinality(AvailablePre) = 2
    /\ its_in.intervention_dt \in AvailablePost
    /\ Len(its_s) = 2

\* the collectors attempted so far, given the position in collect_all
AttemptedAt(pc) ==
    CASE pc = "fred"     -> {}
      [] pc = "treasury" -> {"fred"}
      [] pc = "cbo"      -> {"fred", "treasury"}
      [] OTHER           -> Collectors

\* C29: collect_all attempts the three collectors in the order FRED,
\* Treasury, CBO and returns a dictionary with exactly the keys fred,
\* treasury and cbo; an exception raised by a collector is recorded as an
\* error entry under its key and never keeps the later collectors from running
C29_AllCollectorsAttempted ==
    /\ pipe_pc \in {"fred", "treasury", "cbo", "done"}
    /\ DOMAIN results = AttemptedAt(pipe_pc)
    /\ \A c \in DOMAIN results :
          results[c] = IF pipe_in[c].k = "raise" THEN [error |-> pipe_in[c].v]
                       ELSE [collected |-> pipe_in[c].v]

\* FRED raised, the two later collectors ran, and Treasury raised as well
C29_Witness ==
    /\ pipe_pc = "done"
    /\ pipe_in["fred"].k = "raise"
    /\ pipe_in["treasury"].k = "raise"
    /\ pipe_in["cbo"].k = "return"
    /\ DOMAIN results = Collectors

\* the committed rows of a series
RowsOf(series_id) == {r \in BagToSet(observations) : r.series_id = series_id}

\* C23: after any sequence of collector runs, successful or failed, repeated
\* or over the same dates, the observations table holds at most one row per
\* (series_id, date)
C23_OneRowPerSeriesDate ==
    /\ \A r \in BagToSet(observations) : CopiesIn(r, observations) = 1
    /\ \A r1, r2 \in BagToSet(observations) :
          (r1.series_id = r2.series_id /\ r1.date = r2.date) => r1 = r2

\* two successful runs of the same series, two records saved by each, all
\* four on the same date
C23_Witness ==
    /\ runs = 2
    /\ col_pc = "ready"
    /\ collection_log[1].series_id = collection_log[2].series_id
    /\ \A i \in 1..2 : /\ collection_log[i].status = "success"
                       /\ collection_log[i].records_fetched = 2
    /\ Cardinality(RowsOf(collection_log[1].series_id)) = 1

C25_CountIsCommitted ==
    (col_pc = "ready" /\ runs > 0) =>
        /\ collection_log[runs].records_fetched = last_run.returned
        /\ last_run.returned = last_run.committed
        /\ last_run.status = "error" => last_run.returned = 0

\* the pages requested so far are 1, 2, ... in order, each once
PagesInOrder(requested) == \A i \in 1..Len(requested) : requested[i] = i

\* C30: the pagination loop of collect_debt_to_penny terminates whatever the
\* server answers with finite total-pages values: it requests the pages
\* 1, 2, 3, ... in increasing order, each at most once, stops at the first
\* empty page or as soon as page >= total-pages, and after it the
\* observations are committed once
C30_PaginationTerminates ==
    /\ [](col_run.kind = "debt" =>
             /\ PagesInOrder(col_run.requested)
             /\ col_pc = "request" =>
                   /\ col_run.page = Len(col_run.requested) + 1
                   /\ col_run.page > 1 =>
                         /\ col_run.records = "records"
                         /\ col_run.page - 1 < col_run.total_pages
             /\ col_pc = "rows" => col_run.page = Len(col_run.requested)
             /\ col_pc = "commit" =>
                   \/ col_run.records = "empty"
                   \/ col_run.page >= col_run.total_pages
             /\ col_run.commits <= 1)
    /\ []((col_pc = "ready" /\ last_run.kind = "debt") =>
             /\ PagesInOrder(last_run.requested)
             /\ last_run.commits <= 1
             /\ last_run.status = "success" => last_run.commits = 1)
    /\ ((col_run.kind = "debt" /\ col_pc \in {"request", "rows"})
           ~> (col_pc \in {"commit", "log"}))

\* a run of collect_debt_to_penny that requested two pages and committed
C30_Witness ==
    /\ col_pc = "ready"
    /\ last_run.kind = "debt"
    /\ last_run.status = "success"
    /\ last_run.requested = <<1, 2>>
    /\ last_run.returned > 0

====
